---- MODULE Spec2Model ----
(***************************************************************************)
(* CapIoT experiment orchestration: the runner registry and dispatcher     *)
(* (runners/__init__.py) and the run / phase / iteration state machines of *)
(* the four runners (runners/android_lan.py, android_wan.py, ios_lan.py,   *)
(* ios_wan.py) over the experiment context's ledger (context.py).          *)
(***************************************************************************)
EXTENDS Integers, Sequences, FiniteSets, TLC

(* ------------------------------ bounds --------------------------------- *)
\* largest priority a plug-in runner is registered with
MaxPriority == 1
\* largest number of registry entries explored by SpecDispatch
MaxRegistry == 4
\* largest iteration count of a phase (no_frida_iterations, frida_iterations)
MaxIter == 2
\* largest number of lines of a tap-coordinates script
MaxTaps == 2

\* image_similarity_threshold (0.99), in hundredths
Threshold == 99
\* the largest timeout passed to run_and_wait
MaxTimeout == 2
\* the number of terminate / kill_tree / is_running calls followed on one handle
MaxCalls == 3
\* the largest number of seconds a sleep-times file gives a key
MaxSeconds == 2
\* the number of distinct modification times of the sleep-times file
MaxMtime == 2

(* --------------------------- configuration ----------------------------- *)
Platforms == {"android", "ios"}
NetworkProfiles == {"lan", "wan"}

\* the four runner classes of the repository, in the order cli.py imports them
BuiltinRunners == <<"AndroidLanRunner", "AndroidWanRunner", "iOSWanRunner", "iOSLanRunner">>
BuiltinSet == {BuiltinRunners[k] : k \in DOMAIN BuiltinRunners}
\* further BaseRunner subclasses a caller may register: one accepting every
\* configuration, one accepting every android configuration
PluginRunners == {"GenericRunner", "AndroidGenericRunner"}
RunnerClasses == BuiltinSet \cup PluginRunners

\* register(name=None, ...): None keeps the class name
NoName == "None"
Names == {NoName, "alias"}
Priorities == 0..MaxPriority

VARIABLES
  registry,      \* _REGISTRY: sequence of _Entry [cls, name, priority]
  cfg,           \* ctx.config: platform, network_profile, iteration counts
  pc,            \* position of the thread of control
  dispatched,    \* how dispatch(ctx) ended: "pending", "returned" or the error's class
  errMsg,        \* the tied candidates named by RunnerAmbiguousError
  instantiated,  \* runner classes instantiated and run by dispatch, in order
  use_frida,     \* _iteration_phase's use_frida: the phase being run
  i,             \* the loop index of _iteration_phase
  loc,           \* the local variables of run, _record_setup_phase and _iteration_phase
  exc,           \* the exception in flight while a finally block runs ("none" if none)
  ledger,        \* ctx._iteration_results: phase name -> sequence of <<index, success>>
  summary_file,  \* experiment_summary.txt: << >> until written, then <<the text written>>
  iterLog,       \* the steps called so far in the iteration in progress
  runLog,        \* the run-level steps called so far
  raised,        \* the exceptions raised in the iteration in progress, or since: <<step, kind>>
  world,         \* state outside the process: the network-redirection rules,
                 \* whether the screens compared in the iteration in progress
                 \* all matched ("none" while no verification has completed),
                 \* the process ids the last stop calls were issued with (0: none),
                 \* what the operator last typed at the coordinates prompt, and
                 \* where the capture files of the setup recording and of the
                 \* iteration in progress are (phone, relay, local output tree)
  proc,          \* process_handler: the spawned process group and the call in progress
  st,            \* sleep_times: the backing file, the SleepTimes cache and the last get
  taps,          \* trigger_taps_on_phone: the script, the line reached and what was done
  ec,            \* ExperimentContext: _iteration_results, the summary file, the last summary
  duplicate      \* whether the last call of register named a class registered already:
                 \* "no", or with the name and priority of its entry ("same") or not ("other")

runVars == <<use_frida, i, loc, exc, ledger, summary_file, iterLog, runLog, raised, world, proc, st, taps, ec>>
vars == <<registry, cfg, pc, dispatched, errMsg, instantiated,
          use_frida, i, loc, exc, ledger, summary_file, iterLog, runLog, raised, world, proc, st, taps, ec, duplicate>>

(* ------------------------- registry / dispatch ------------------------- *)
\* runner classes that look at the platform alone
CanHandlePlatformOnly(cls, c) ==
  CASE cls \in {"AndroidLanRunner", "AndroidWanRunner", "AndroidGenericRunner"} ->
         c.platform = "android"
    [] cls \in {"iOSLanRunner", "iOSWanRunner"} -> c.platform = "ios"
    [] cls = "GenericRunner" -> TRUE

\* can_handle of each runner class
CanHandle(cls, c) ==
  CASE cls = "AndroidLanRunner" -> c.platform = "android" /\ c.network_profile = "lan"
    [] cls = "AndroidWanRunner" -> c.platform = "android" /\ c.network_profile = "wan"
    [] cls = "iOSLanRunner" -> c.platform = "ios" /\ c.network_profile = "lan"
    [] cls = "iOSWanRunner" -> c.platform = "ios" /\ c.network_profile = "wan"
    [] cls = "GenericRunner" -> TRUE
    [] cls = "AndroidGenericRunner" -> c.platform = "android"

\* a register that appends whatever is registered
RegisterEntryAppend(reg, cls, name, priority) ==
  Append(reg, [cls |-> cls,
               name |-> IF name = NoName THEN cls ELSE name,
               priority |-> priority])

\* register(name=, priority=)(cls): append unless the class is registered already
RegisterEntry(reg, cls, name, priority) ==
  IF \E k \in DOMAIN reg : reg[k].cls = cls
  THEN reg
  ELSE Append(reg, [cls |-> cls,
                    name |-> IF name = NoName THEN cls ELSE name,
                    priority |-> priority])

\* the registry after cli.py has imported the four runner modules
BuiltinRegistry ==
  LET R1 == RegisterEntry(<< >>, BuiltinRunners[1], NoName, 0)
      R2 == RegisterEntry(R1, BuiltinRunners[2], NoName, 0)
      R3 == RegisterEntry(R2, BuiltinRunners[3], NoName, 0)
  IN RegisterEntry(R3, BuiltinRunners[4], NoName, 0)

\* matches = [e for e in _REGISTRY if e.cls.can_handle(cfg)]
MatchesAll(reg, c) == reg
Matches(reg, c) == SelectSeq(reg, LAMBDA e : CanHandle(e.cls, c))

RECURSIVE SortDesc(_, _)
\* entries of s with priority p, then those with p-1, ... down to 0 (stable)
SortDesc(s, p) ==
  IF p < 0 THEN << >>
  ELSE SelectSeq(s, LAMBDA e : e.priority = p) \o SortDesc(s, p - 1)

\* sorted(matches, key=priority, reverse=True)
MatchesUnsorted(matches) == matches
MatchesSorted(matches) ==
  LET top == CHOOSE p \in {matches[k].priority : k \in DOMAIN matches} :
                \A k \in DOMAIN matches : matches[k].priority <= p
  IN SortDesc(matches, top)

\* top_candidates = [e for e in matches_sorted if e.priority == top_priority]
TopFirstOnly(sorted) == <<sorted[1]>>
TopCandidates(sorted) ==
  LET top_priority == sorted[1].priority
  IN SelectSeq(sorted, LAMBDA e : e.priority = top_priority)

\* f"{e.name}(prio={e.priority})" for each tied candidate
Tied(cands) == [k \in DOMAIN cands |-> <<cands[k].name, cands[k].priority>>]

Register(cls, name, priority) ==
  /\ pc = "cli"
  /\ Len(registry) < MaxRegistry
  /\ registry' = RegisterEntry(registry, cls, name, priority)
  /\ duplicate' = IF \A k \in DOMAIN registry : registry[k].cls # cls THEN "no"
                  ELSE IF [cls |-> cls, name |-> IF name = NoName THEN cls ELSE name,
                           priority |-> priority] \in {registry[k] : k \in DOMAIN registry}
                       THEN "same" ELSE "other"
  /\ UNCHANGED <<cfg, pc, dispatched, errMsg, instantiated>>
  /\ UNCHANGED runVars

\* a built-in runner module is imported: @register(priority=0)
RegisterBuiltin == \E cls \in BuiltinSet : Register(cls, NoName, 0)
\* a caller registers a further runner class
RegisterPlugin ==
  \E cls \in PluginRunners, name \in Names, priority \in Priorities :
     Register(cls, name, priority)

\* dispatch(ctx), up to the call of the selected runner's run
Dispatch ==
  /\ pc = "cli"
  /\ LET matches == Matches(registry, cfg)
     IN IF matches = << >>
        THEN /\ dispatched' = "RunnerNotFoundError"
             /\ pc' = "exit"
             /\ UNCHANGED <<errMsg, instantiated>>
        ELSE LET top_candidates == TopCandidates(MatchesSorted(matches))
             IN IF Len(top_candidates) = 1
                THEN /\ instantiated' = Append(instantiated, top_candidates[1].cls)
                     /\ pc' = "run"
                     /\ UNCHANGED <<dispatched, errMsg>>
                ELSE /\ dispatched' = "RunnerAmbiguousError"
                     /\ errMsg' = Tied(top_candidates)
                     /\ pc' = "exit"
                     /\ UNCHANGED instantiated
  /\ UNCHANGED <<registry, cfg, duplicate>>
  /\ UNCHANGED runVars

\* BaseRunner.run of the selected runner, by its interface: it returns or raises
RunOutcomes == {"returned", "ExperimentError", "KeyboardInterrupt", "RuntimeError"}
\* a dispatch that would turn the runner's error into a selection-layer error
DispatchResultWrapped(out) == IF out = "returned" THEN out ELSE "RunnerError"
\* how dispatch ends once entry.cls().run(ctx) has ended with `out`: the call
\* has no handler around it, and dispatch returns right after it
DispatchResult(out) == out

BaseRunnerRun ==
  /\ pc = "run"
  /\ \E out \in RunOutcomes :
       /\ exc' = IF out = "returned" THEN "none" ELSE out
       /\ dispatched' = DispatchResult(out)
  /\ pc' = "exit"
  /\ UNCHANGED <<registry, cfg, errMsg, instantiated>>
  /\ UNCHANGED <<use_frida, i, loc, ledger, summary_file, iterLog, runLog, raised, world, proc, st, taps, ec, duplicate>>

\* no process has been spawned through process_handler
NoProc == [op |-> "none"]
\* no SleepTimes object has been constructed
NoSleepTimes == [path |-> "unset"]
\* no call of trigger_taps_on_phone is being followed
NoTaps == [at |-> "unset"]
\* no ExperimentContext is being followed on its own
NoContext == [at |-> "unset"]

\* the locals before run() is entered; 0 stands for None where the value is a
\* process id or a capture file's iteration number
InitLoc ==
  [overall_process |-> "None", setup_server_process |-> "None", setup_phone_pid |-> 0,
   server_process |-> "None", mitm_process |-> "None", frida_process |-> "None",
   phone_pcap_name |-> 0, phone_tcpdump_pid |-> 0,
   remote_pid |-> 0, remote_pcap_name |-> 0, success |-> TRUE]

InitRun ==
  /\ pc = "cli"
  /\ dispatched = "pending"
  /\ errMsg = << >>
  /\ instantiated = << >>
  /\ use_frida = FALSE
  /\ i = 0
  /\ loc = InitLoc
  /\ exc = "none"
  /\ ledger = << >>
  /\ summary_file = << >>
  /\ iterLog = << >>
  /\ runLog = << >>
  /\ raised = << >>
  /\ world = [rules |-> "down", verified |-> "none",
              setup_stop |-> 0, phone_stop |-> 0, relay_stop |-> 0, gate |-> "none",
              setup_file |-> "unretrieved", phone_file |-> "unretrieved",
              relay_file |-> "unretrieved"]
  /\ proc = NoProc
  /\ st = NoSleepTimes
  /\ taps = NoTaps
  /\ ec = NoContext
  /\ duplicate = "no"

InitDispatch ==
  /\ registry = << >>
  /\ cfg \in [platform : Platforms, network_profile : NetworkProfiles,
              no_frida_iterations : {0}, frida_iterations : {0}]
  /\ InitRun

NextDispatch == RegisterBuiltin \/ RegisterPlugin \/ Dispatch \/ BaseRunnerRun

SpecDispatch == InitDispatch /\ [][NextDispatch]_vars

(* ------------------------ the runners' programs ------------------------ *)
\* the runner dispatch selected
Runner == instantiated[Len(instantiated)]
IsAndroid == Runner \in {"AndroidLanRunner", "AndroidWanRunner"}
IsWan == Runner \in {"AndroidWanRunner", "iOSWanRunner"}

\* process ids a remote start call may return
Pids == {101, 201}

\* a try block that applies the redirection rules in either phase
BodyRulesAlways(r, f) ==
  <<"apply_rules_up", "start_server_tcpdump", "start_phone_capture">>
  \o (IF r \in {"AndroidWanRunner", "iOSWanRunner"} THEN <<"start_remote_tcpdump">> ELSE << >>)
  \o (IF r \in {"AndroidLanRunner", "AndroidWanRunner"}
      THEN (IF f THEN <<"start_mitmdump", "start_frida">> ELSE <<"start_app">>)
           \o <<"sleep_start_app">>
      ELSE (IF f THEN <<"start_mitmdump">> ELSE << >>)
           \o <<"start_app", "sleep_start_app">>
           \o (IF f THEN <<"start_objection">> ELSE << >>))
  \o <<"trigger_taps_on_phone", "sleep_between_iterations">>

\* the statements of the try block of _iteration_phase, in order
Body(r, f) ==
  (IF f THEN <<"apply_rules_up">> ELSE << >>)
  \o <<"start_server_tcpdump", "start_phone_capture">>
  \o (IF r \in {"AndroidWanRunner", "iOSWanRunner"} THEN <<"start_remote_tcpdump">> ELSE << >>)
  \o (IF r \in {"AndroidLanRunner", "AndroidWanRunner"}
      THEN (IF f THEN <<"start_mitmdump", "start_frida">> ELSE <<"start_app">>)
           \o <<"sleep_start_app">>
      ELSE (IF f THEN <<"start_mitmdump">> ELSE << >>)
           \o <<"start_app", "sleep_start_app">>
           \o (IF f THEN <<"start_objection">> ELSE << >>))
  \o <<"trigger_taps_on_phone", "sleep_between_iterations">>

\* a finally block that sleeps before it stops the app
CleanupSleepFirst(r, f) ==
  (IF r \in {"AndroidWanRunner", "iOSWanRunner"} THEN <<"stop_remote_tcpdump">> ELSE << >>)
  \o <<"stop_phone_capture", "kill_server_process", "kill_mitm_process", "kill_frida_process">>
  \o (CASE r = "AndroidLanRunner" -> <<"pull_phone_pcap", "delete_phone_pcap">>
        [] r = "AndroidWanRunner" -> <<"pull_phone_pcap", "delete_phone_pcap", "download_remote_pcap">>
        [] r = "iOSLanRunner" -> <<"download_phone_pcap", "reset_terminal">>
        [] r = "iOSWanRunner" -> <<"download_phone_pcap", "download_remote_pcap">>)
  \o (IF f THEN (IF r = "iOSWanRunner" THEN <<"reset_terminal">> ELSE << >>)
                \o <<"apply_rules_down">>
           ELSE << >>)
  \o <<"sleep_stop_app", "stop_app", "record_iteration_result">>

\* the statements of the finally block of _iteration_phase, in order
Cleanup(r, f) ==
  (IF r \in {"AndroidWanRunner", "iOSWanRunner"} THEN <<"stop_remote_tcpdump">> ELSE << >>)
  \o <<"stop_phone_capture", "kill_server_process", "kill_mitm_process", "kill_frida_process">>
  \o (CASE r = "AndroidLanRunner" -> <<"pull_phone_pcap", "delete_phone_pcap">>
        [] r = "AndroidWanRunner" -> <<"pull_phone_pcap", "delete_phone_pcap", "download_remote_pcap">>
        [] r = "iOSLanRunner" -> <<"download_phone_pcap", "reset_terminal">>
        [] r = "iOSWanRunner" -> <<"download_phone_pcap", "download_remote_pcap">>)
  \o (IF f THEN (IF r = "iOSWanRunner" THEN <<"reset_terminal">> ELSE << >>)
                \o <<"apply_rules_down">>
           ELSE << >>)
  \o <<"stop_app", "sleep_stop_app", "record_iteration_result">>

\* the statement after step p of the iteration ("iter_end" after the last)
After(r, f, p) ==
  LET steps == Body(r, f) \o Cleanup(r, f)
      k == CHOOSE j \in DOMAIN steps : steps[j] = p
  IN IF k = Len(steps) THEN "iter_end" ELSE steps[k + 1]

\* num_iterations and phase_name of _iteration_phase
NumIter(f) == IF f THEN cfg.frida_iterations ELSE cfg.no_frida_iterations
PhaseName == IF use_frida THEN "frida" ELSE "no_frida"
LedgerOf(l, phase) == IF phase \in DOMAIN l THEN l[phase] ELSE << >>

\* how a call may end
Fallible == {"ok", "Exception"}
Blocking == {"ok", "Exception", "KeyboardInterrupt"}

dispFrame == UNCHANGED <<registry, cfg, dispatched, errMsg, instantiated>>
iterFrame ==
  /\ dispFrame
  /\ iterLog' = Append(iterLog, pc)
  /\ UNCHANGED <<use_frida, i, ledger, summary_file, runLog>>

\* a statement of the try block returns
BodyOk(newloc) ==
  /\ pc' = After(Runner, use_frida, pc)
  /\ loc' = newloc
  /\ UNCHANGED <<exc, raised>>

\* a statement of the try block raises: `except Exception` marks the iteration
\* failed; a KeyboardInterrupt stays in flight; either way the finally block runs
BodyRaise(kind, newloc) ==
  /\ raised' = Append(raised, <<pc, kind>>)
  /\ pc' = Cleanup(Runner, use_frida)[1]
  /\ loc' = IF kind = "KeyboardInterrupt" THEN newloc ELSE [newloc EXCEPT !.success = FALSE]
  /\ exc' = IF kind = "KeyboardInterrupt" THEN kind ELSE exc

\* a statement of the finally block returns
CleanupOk(newloc) ==
  /\ pc' = After(Runner, use_frida, pc)
  /\ loc' = newloc
  /\ UNCHANGED <<exc, raised>>

\* a statement of the finally block raises: the exception leaves
\* _iteration_phase; run() turns an Exception into ExperimentError and enters
\* its own finally block
CleanupRaise(kind) ==
  /\ raised' = Append(raised, <<pc, kind>>)
  /\ exc' = IF kind = "KeyboardInterrupt" THEN kind ELSE "ExperimentError"
  /\ pc' = "kill_overall"
  /\ UNCHANGED loc

(* ---------------- _iteration_phase: the try block ---------------------- *)
\* iptables.apply_rules(ctx.config.iptables_script_up_path)
ApplyRulesUp ==
  /\ pc = "apply_rules_up"
  /\ \E out \in Blocking :
       IF out = "ok"
       THEN BodyOk(loc) /\ world' = [world EXCEPT !.rules = "up"] /\ UNCHANGED <<proc, st, taps, ec, duplicate>>
       ELSE BodyRaise(out, loc) /\ UNCHANGED <<world, proc, st, taps, ec, duplicate>>
  /\ iterFrame

\* server_process = server.start_tcpdump(...)
StartServerTcpdump ==
  /\ pc = "start_server_tcpdump"
  /\ \E out \in Fallible :
       IF out = "ok"
       THEN BodyOk([loc EXCEPT !.server_process = "running"])
       ELSE BodyRaise(out, loc)
  /\ UNCHANGED <<world, proc, st, taps, ec, duplicate>>
  /\ iterFrame

\* phone_pcap_name = ...; then phone.start_pcapdroid (android), or
\* phone_tcpdump_pid = phone.start_tcpdump / ssh.start_remote_tcpdump (ios)
StartPhoneCapture ==
  /\ pc = "start_phone_capture"
  /\ LET named == [loc EXCEPT !.phone_pcap_name = i]
     IN \E out \in Blocking, pid \in Pids :
          IF out = "ok"
          THEN BodyOk(IF IsAndroid THEN named ELSE [named EXCEPT !.phone_tcpdump_pid = pid])
          ELSE BodyRaise(out, named)
  /\ UNCHANGED <<world, proc, st, taps, ec, duplicate>>
  /\ iterFrame

\* remote_pcap_name = ...; remote_pid = ssh.start_remote_tcpdump(...)
StartRemoteTcpdump ==
  /\ pc = "start_remote_tcpdump"
  /\ LET named == [loc EXCEPT !.remote_pcap_name = i]
     IN \E out \in Blocking, pid \in Pids :
          IF out = "ok"
          THEN BodyOk([named EXCEPT !.remote_pid = pid])
          ELSE BodyRaise(out, named)
  /\ UNCHANGED <<world, proc, st, taps, ec, duplicate>>
  /\ iterFrame

\* mitm_process = server.start_mitmdump(...)
StartMitmdump ==
  /\ pc = "start_mitmdump"
  /\ \E out \in Fallible :
       IF out = "ok"
       THEN BodyOk([loc EXCEPT !.mitm_process = "running"])
       ELSE BodyRaise(out, loc)
  /\ UNCHANGED <<world, proc, st, taps, ec, duplicate>>
  /\ iterFrame

\* frida_process = server.start_frida(...) (android)
StartFrida ==
  /\ pc = "start_frida"
  /\ \E out \in Fallible :
       IF out = "ok"
       THEN BodyOk([loc EXCEPT !.frida_process = "running"])
       ELSE BodyRaise(out, loc)
  /\ UNCHANGED <<world, proc, st, taps, ec, duplicate>>
  /\ iterFrame

\* frida_process = server.start_objection(...) (ios)
StartObjection ==
  /\ pc = "start_objection"
  /\ \E out \in Fallible :
       IF out = "ok"
       THEN BodyOk([loc EXCEPT !.frida_process = "running"])
       ELSE BodyRaise(out, loc)
  /\ UNCHANGED <<world, proc, st, taps, ec, duplicate>>
  /\ iterFrame

\* phone.start_app(...)
StartApp ==
  /\ pc = "start_app"
  /\ \E out \in Blocking :
       IF out = "ok" THEN BodyOk(loc) ELSE BodyRaise(out, loc)
  /\ UNCHANGED <<world, proc, st, taps, ec, duplicate>>
  /\ iterFrame

\* time.sleep(ctx.sleep_times.get("start_app", 15))
SleepStartApp ==
  /\ pc = "sleep_start_app"
  /\ \E out \in Blocking :
       IF out = "ok" THEN BodyOk(loc) ELSE BodyRaise(out, loc)
  /\ UNCHANGED <<world, proc, st, taps, ec, duplicate>>
  /\ iterFrame

\* SSIM scores in hundredths, around the threshold
Scores == (Threshold - 1)..(Threshold + 1)
\* what one line of the tap script leads to: a comparison with a score, a
\* comparison that raises, a malformed line, a failing tap or screenshot, an
\* interrupt
TapOutcomes ==
  {[kind |-> "scored", score |-> s] : s \in Scores}
  \cup {[kind |-> k, score |-> 0] :
          k \in {"compare_error", "malformed", "tap_error", "screenshot_error", "interrupt"}}
TapScripts == UNION {[1..n -> TapOutcomes] : n \in 0..MaxTaps}

\* a comparison that also rejects a score equal to the threshold
NotAboveThreshold(score) == score <= Threshold
\* if score < ctx.config.image_similarity_threshold
BelowThreshold(score) == score < Threshold

\* the screens of a script that ran to its end: did every comparison made give
\* a score of at least the threshold
Verified(script) ==
  IF \A k \in DOMAIN script :
        /\ script[k].kind # "compare_error"
        /\ script[k].kind = "scored" => script[k].score >= Threshold
  THEN "all_met" ELSE "some_failed"

RECURSIVE TapLoop(_, _, _)
\* the for loop of trigger_taps_on_phone from line k on, with `success` so far
TapLoop(script, k, ok) ==
  IF k > Len(script) THEN (IF ok THEN "true" ELSE "false")
  ELSE CASE script[k].kind = "malformed" -> TapLoop(script, k + 1, ok)
         [] script[k].kind \in {"tap_error", "screenshot_error"} -> "Exception"
         [] script[k].kind = "interrupt" -> "KeyboardInterrupt"
         [] script[k].kind = "scored" ->
              TapLoop(script, k + 1, IF BelowThreshold(script[k].score) THEN FALSE ELSE ok)
         [] script[k].kind = "compare_error" -> TapLoop(script, k + 1, FALSE)

\* trigger_taps_on_phone(ctx, i, use_frida): "true", "false" or the exception raised
TriggerTaps(script) == TapLoop(script, 1, TRUE)

\* success = phone.trigger_taps_on_phone(ctx, i, use_frida)
TriggerTapsOnPhone ==
  /\ pc = "trigger_taps_on_phone"
  /\ \E script \in TapScripts, found \in BOOLEAN :
       LET res == IF found THEN TriggerTaps(script) ELSE "Exception"
       IN IF res \in {"true", "false"}
          THEN /\ BodyOk([loc EXCEPT !.success = (res = "true")])
               /\ world' = [world EXCEPT !.verified = Verified(script)]
          ELSE BodyRaise(res, loc) /\ UNCHANGED world
  /\ UNCHANGED <<proc, st, taps, ec, duplicate>>
  /\ iterFrame

\* time.sleep(ctx.sleep_times.get("between_iterations", 300))
SleepBetweenIterations ==
  /\ pc = "sleep_between_iterations"
  /\ \E out \in Blocking :
       IF out = "ok" THEN BodyOk(loc) ELSE BodyRaise(out, loc)
  /\ UNCHANGED <<world, proc, st, taps, ec, duplicate>>
  /\ iterFrame

(* --------------- _iteration_phase: the finally block ------------------- *)
\* the process id phone.stop_tcpdump is called with for a capture whose start
\* returned pid: ios_lan passes phone_pid + 1 and phone_tcpdump_pid + 1,
\* ios_wan passes phone_tcpdump_pid
PhoneStopPid(r, pid) == IF r = "iOSLanRunner" THEN pid + 1 ELSE pid

\* ssh.stop_remote_tcpdump(ctx.config.remote_server_ssh, remote_pid)
StopRemoteTcpdump ==
  /\ pc = "stop_remote_tcpdump"
  /\ \E out \in Blocking :
       IF out = "ok" THEN CleanupOk(loc) ELSE CleanupRaise(out)
  /\ world' = [world EXCEPT !.relay_stop = loc.remote_pid]
  /\ UNCHANGED <<proc, st, taps, ec, duplicate>>
  /\ iterFrame

\* phone.stop_pcapdroid(...) (android), phone.stop_tcpdump(ssh, phone_tcpdump_pid + 1)
\* (ios lan: None + 1 is a TypeError), phone.stop_tcpdump(ssh, phone_tcpdump_pid) (ios wan)
StopPhoneCapture ==
  /\ pc = "stop_phone_capture"
  /\ IF Runner = "iOSLanRunner" /\ loc.phone_tcpdump_pid = 0
     THEN CleanupRaise("TypeError")
     ELSE \E out \in Blocking :
            IF out = "ok" THEN CleanupOk(loc) ELSE CleanupRaise(out)
  /\ world' = IF IsAndroid \/ loc.phone_tcpdump_pid = 0 THEN world
               ELSE [world EXCEPT !.phone_stop = PhoneStopPid(Runner, loc.phone_tcpdump_pid)]
  /\ UNCHANGED <<proc, st, taps, ec, duplicate>>
  /\ iterFrame

\* server_process.kill_tree(): an AttributeError while server_process is None
KillServerProcess ==
  /\ pc = "kill_server_process"
  /\ IF loc.server_process = "None"
     THEN CleanupRaise("AttributeError")
     ELSE CleanupOk([loc EXCEPT !.server_process = "killed"])
  /\ UNCHANGED <<world, proc, st, taps, ec, duplicate>>
  /\ iterFrame

\* if mitm_process: mitm_process.kill_tree()
KillMitmProcess ==
  /\ pc = "kill_mitm_process"
  /\ pc' = After(Runner, use_frida, pc)
  /\ loc' = IF loc.mitm_process = "None" THEN loc ELSE [loc EXCEPT !.mitm_process = "killed"]
  /\ iterLog' = IF loc.mitm_process = "None" THEN iterLog ELSE Append(iterLog, pc)
  /\ dispFrame
  /\ UNCHANGED <<use_frida, i, exc, ledger, summary_file, runLog, raised, world, proc, st, taps, ec, duplicate>>

\* if frida_process: frida_process.kill_tree()
KillFridaProcess ==
  /\ pc = "kill_frida_process"
  /\ pc' = After(Runner, use_frida, pc)
  /\ loc' = IF loc.frida_process = "None" THEN loc ELSE [loc EXCEPT !.frida_process = "killed"]
  /\ iterLog' = IF loc.frida_process = "None" THEN iterLog ELSE Append(iterLog, pc)
  /\ dispFrame
  /\ UNCHANGED <<use_frida, i, exc, ledger, summary_file, runLog, raised, world, proc, st, taps, ec, duplicate>>

\* A capture file on the phone or relay is "unretrieved" (no copy in the output
\* tree), "retrieved" (copied, still on the device), "removed" (copied, then
\* deleted on the device) or "lost" (deleted on the device without a copy).
\* - after adb pull / sftp.get returned
Pulled(s) == IF s = "unretrieved" THEN "retrieved" ELSE s
\* - after adb shell rm / sftp.remove returned
Deleted(s) == IF s = "unretrieved" THEN "lost" ELSE "removed"

\* what sftp.get and sftp.remove may do
SftpOutcomes == {"ok", "Exception"}
\* a helper that removes the remote file whatever sftp.get did
DownloadedThenRemoved(s, got, removed) ==
  LET after_get == IF got = "ok" THEN Pulled(s) ELSE s
  IN IF removed = "ok" THEN Deleted(after_get) ELSE after_get
\* ssh.download_remote_file once connected: try: sftp.get(...); sftp.remove(...)
\* except Exception: logger.error(...) - the file afterwards; no exception
\* leaves the try statement
Downloaded(s, got, removed) ==
  IF got # "ok" THEN s
  ELSE IF removed = "ok" THEN Deleted(Pulled(s)) ELSE Pulled(s)

\* phone_pcap_path = pcap_download_path / phone_pcap_name (a TypeError on None);
\* phone.pull_file_to_server(...)
PullPhonePcap ==
  /\ pc = "pull_phone_pcap"
  /\ IF loc.phone_pcap_name = 0
     THEN CleanupRaise("TypeError") /\ UNCHANGED world
     ELSE \E out \in Blocking :
            IF out = "ok"
            THEN CleanupOk(loc) /\ world' = [world EXCEPT !.phone_file = Pulled(@)]
            ELSE CleanupRaise(out) /\ UNCHANGED world
  /\ UNCHANGED <<proc, st, taps, ec, duplicate>>
  /\ iterFrame

\* phone.delete_file_from_phone(phone_id, phone_pcap_path)
DeletePhonePcap ==
  /\ pc = "delete_phone_pcap"
  /\ \E out \in Blocking :
       IF out = "ok"
       THEN CleanupOk(loc) /\ world' = [world EXCEPT !.phone_file = Deleted(@)]
       ELSE CleanupRaise(out) /\ UNCHANGED world
  /\ UNCHANGED <<proc, st, taps, ec, duplicate>>
  /\ iterFrame

\* local_path = target_dir / phone_pcap_name (a TypeError on None);
\* ssh.download_remote_file(ctx.config.ios.ssh, phone_pcap_path, local_path)
DownloadPhonePcap ==
  /\ pc = "download_phone_pcap"
  /\ IF loc.phone_pcap_name = 0
     THEN CleanupRaise("TypeError") /\ UNCHANGED world
     ELSE \E out \in Blocking, got \in SftpOutcomes, removed \in SftpOutcomes :
            IF out = "ok"
            THEN /\ CleanupOk(loc)
                 /\ world' = [world EXCEPT !.phone_file = Downloaded(@, got, removed)]
            ELSE CleanupRaise(out) /\ UNCHANGED world
  /\ UNCHANGED <<proc, st, taps, ec, duplicate>>
  /\ iterFrame

\* local_path = target_dir / remote_pcap_name (a TypeError on None);
\* ssh.download_remote_file(ctx.config.remote_server_ssh, remote_tcpdump_filename, local_path)
DownloadRemotePcap ==
  /\ pc = "download_remote_pcap"
  /\ IF loc.remote_pcap_name = 0
     THEN CleanupRaise("TypeError") /\ UNCHANGED world
     ELSE \E out \in Blocking, got \in SftpOutcomes, removed \in SftpOutcomes :
            IF out = "ok"
            THEN /\ CleanupOk(loc)
                 /\ world' = [world EXCEPT !.relay_file = Downloaded(@, got, removed)]
            ELSE CleanupRaise(out) /\ UNCHANGED world
  /\ UNCHANGED <<proc, st, taps, ec, duplicate>>
  /\ iterFrame

\* server.reset_terminal()
ResetTerminal ==
  /\ pc = "reset_terminal"
  /\ \E out \in Fallible :
       IF out = "ok" THEN CleanupOk(loc) ELSE CleanupRaise(out)
  /\ UNCHANGED <<world, proc, st, taps, ec, duplicate>>
  /\ iterFrame

\* iptables.apply_rules(ctx.config.iptables_script_down_path)
ApplyRulesDown ==
  /\ pc = "apply_rules_down"
  /\ \E out \in Blocking :
       IF out = "ok"
       THEN CleanupOk(loc) /\ world' = [world EXCEPT !.rules = "down"] /\ UNCHANGED <<proc, st, taps, ec, duplicate>>
       ELSE CleanupRaise(out) /\ UNCHANGED <<world, proc, st, taps, ec, duplicate>>
  /\ iterFrame

\* phone.stop_app(...): adb on android; on ios _close_session swallows every Exception
StopApp ==
  /\ pc = "stop_app"
  /\ \E out \in Blocking :
       IF out = "ok" \/ (~IsAndroid /\ out = "Exception")
       THEN CleanupOk(loc)
       ELSE CleanupRaise(out)
  /\ UNCHANGED <<world, proc, st, taps, ec, duplicate>>
  /\ iterFrame

\* time.sleep(ctx.sleep_times.get("stop_app", 15))
SleepStopApp ==
  /\ pc = "sleep_stop_app"
  /\ \E out \in Blocking :
       IF out = "ok" THEN CleanupOk(loc) ELSE CleanupRaise(out)
  /\ UNCHANGED <<world, proc, st, taps, ec, duplicate>>
  /\ iterFrame

\* ExperimentContext.record_iteration_result(phase, iteration_index, success)
RecordIterationResult(l, phase, index, success) ==
  IF phase \in DOMAIN l
  THEN [l EXCEPT ![phase] = Append(@, <<index, success>>)]
  ELSE l @@ (phase :> << <<index, success>> >>)

\* ctx.record_iteration_result(phase_name, i, success), the last statement of finally
RecordResult ==
  /\ pc = "record_iteration_result"
  /\ ledger' = RecordIterationResult(ledger, PhaseName, i, loc.success)
  /\ pc' = "iter_end"
  /\ iterLog' = Append(iterLog, pc)
  /\ dispFrame
  /\ UNCHANGED <<use_frida, i, loc, exc, summary_file, runLog, raised, world, proc, st, taps, ec, duplicate>>

\* the locals `for i in range(1, num_iterations + 1)` resets at the top of an iteration
LoopLocals(l) ==
  LET base == [l EXCEPT !.server_process = "None", !.mitm_process = "None",
                        !.frida_process = "None", !.success = TRUE]
  IN IF IsWan THEN [base EXCEPT !.remote_pid = 0, !.remote_pcap_name = 0] ELSE base

\* a loop that runs a failed iteration again
EnterIterationRetry(f, k, l) ==
  IF k > 1 /\ ~l.success
  THEN /\ i' = k - 1
       /\ loc' = [l EXCEPT !.server_process = "None", !.mitm_process = "None",
                           !.frida_process = "None", !.success = TRUE]
       /\ pc' = Body(instantiated[Len(instantiated)], f)[1]
  ELSE IF k <= (IF f THEN cfg.frida_iterations ELSE cfg.no_frida_iterations)
  THEN /\ i' = k
       /\ loc' = [l EXCEPT !.server_process = "None", !.mitm_process = "None",
                           !.frida_process = "None", !.success = TRUE]
       /\ pc' = Body(instantiated[Len(instantiated)], f)[1]
  ELSE /\ pc' = IF f THEN "kill_overall" ELSE "phase_frida"
       /\ loc' = l
       /\ UNCHANGED i

\* the for loop of phase f reaches index k: the iteration starts, or the phase
\* is complete and run() goes on
EnterIteration(f, k, l) ==
  IF k <= NumIter(f)
  THEN /\ i' = k
       /\ loc' = LoopLocals(l)
       /\ pc' = Body(Runner, f)[1]
  ELSE /\ pc' = IF f THEN "kill_overall" ELSE "phase_frida"
       /\ loc' = l
       /\ UNCHANGED i

\* the finally block of an iteration is left: a KeyboardInterrupt in flight
\* propagates out of _iteration_phase and run(); otherwise the loop goes on
IterationEnd ==
  /\ pc = "iter_end"
  /\ IF exc = "none"
     THEN /\ EnterIteration(use_frida, i + 1, loc)
          /\ iterLog' = << >>
          /\ raised' = << >>
          /\ world' = [world EXCEPT !.verified = "none", !.phone_stop = 0, !.relay_stop = 0,
                                     !.phone_file = "unretrieved", !.relay_file = "unretrieved"]
     ELSE pc' = "kill_overall" /\ UNCHANGED <<i, loc, iterLog, raised, world>>
  /\ dispFrame
  /\ UNCHANGED <<use_frida, exc, ledger, summary_file, runLog, proc, st, taps, ec, duplicate>>

(* ------------------------------ run() ---------------------------------- *)
runFrame ==
  /\ dispFrame
  /\ runLog' = Append(runLog, pc)
  /\ UNCHANGED <<use_frida, i, ledger, summary_file, iterLog, world, proc, st, taps, ec, duplicate>>

\* a run() without a finally block: the exception leaves it at once
RunRaiseNoFinally(kind) ==
  /\ raised' = Append(raised, <<pc, kind>>)
  /\ exc' = IF kind = "KeyboardInterrupt" THEN kind ELSE "ExperimentError"
  /\ pc' = "exit"
  /\ UNCHANGED loc

\* a statement of run()'s try block, outside the iterations, raises:
\* `except Exception` raises ExperimentError; then the finally block runs
RunRaise(kind) ==
  /\ raised' = Append(raised, <<pc, kind>>)
  /\ exc' = IF kind = "KeyboardInterrupt" THEN kind ELSE "ExperimentError"
  /\ pc' = "kill_overall"
  /\ UNCHANGED loc

RunOk(next, newloc) ==
  /\ pc' = next
  /\ loc' = newloc
  /\ UNCHANGED <<exc, raised>>

\* run(self, ctx) is entered: overall_process = None
EnterRun ==
  /\ pc = "run"
  /\ pc' = IF IsAndroid THEN "bluetooth" ELSE "start_overall"
  /\ loc' = [loc EXCEPT !.overall_process = "None"]
  /\ dispFrame
  /\ UNCHANGED <<use_frida, i, exc, ledger, summary_file, iterLog, runLog, raised, world, proc, st, taps, ec, duplicate>>

\* phone.enable_bluetooth (android lan) / phone.disable_bluetooth (android wan)
Bluetooth ==
  /\ pc = "bluetooth"
  /\ \E out \in Blocking :
       IF out = "ok" THEN RunOk("start_overall", loc) ELSE RunRaise(out)
  /\ runFrame

\* overall_process = server.start_tcpdump(ctx.config.server_interface, overall_pcap)
StartOverall ==
  /\ pc = "start_overall"
  /\ \E out \in Fallible :
       IF out = "ok"
       THEN RunOk(CASE Runner = "AndroidLanRunner" -> "prompt_setup"
                    [] Runner = "iOSLanRunner" -> "create_folder"
                    [] OTHER -> "prompt_ready",
                  [loc EXCEPT !.overall_process = "running"])
       ELSE RunRaise(out)
  /\ runFrame

\* ssh.create_folder(ctx.config.ios.ssh, phone_pcap_save_path) in iOSLanRunner.run
CreateFolder ==
  /\ pc = "create_folder"
  /\ \E out \in Blocking :
       IF out = "ok" THEN RunOk("prompt_setup", loc) ELSE RunRaise(out)
  /\ runFrame

\* what input() gives prompt_user: a line, end of input, or the operator's interrupt
Answers == {"y", "n", "EOF", "KeyboardInterrupt"}

\* a prompt that takes any line, and end of input, for a yes
PromptUserAlways(a) == TRUE
\* prompt_user(prompt): EOFError gives False; else answer in ("y", "yes")
PromptUser(a) == a \in {"y", "yes"}

\* if prompt_user("Record setup phase of IoT device?"): _record_setup_phase(ctx)
PromptSetup ==
  /\ pc = "prompt_setup"
  /\ \E a \in Answers :
       CASE a = "KeyboardInterrupt" -> RunRaise(a)
         [] OTHER -> RunOk(IF PromptUser(a) THEN "setup_start_server" ELSE "prompt_ready", loc)
  /\ runFrame

\* _record_setup_phase: server_process = server.start_tcpdump(...)
SetupStartServer ==
  /\ pc = "setup_start_server"
  /\ \E out \in Fallible :
       IF out = "ok"
       THEN RunOk("setup_start_phone", [loc EXCEPT !.setup_server_process = "running"])
       ELSE RunRaise(out)
  /\ runFrame

\* _record_setup_phase: phone.start_pcapdroid(...) / phone_pid = phone.start_tcpdump(...)
SetupStartPhone ==
  /\ pc = "setup_start_phone"
  /\ \E out \in Blocking, pid \in Pids :
       IF out = "ok"
       THEN RunOk("setup_prompt",
                  IF IsAndroid THEN loc ELSE [loc EXCEPT !.setup_phone_pid = pid])
       ELSE RunRaise(out)
  /\ runFrame

\* _record_setup_phase: while not prompt_user("Enter 'y' when setup is finished")
SetupPrompt ==
  /\ pc = "setup_prompt"
  /\ \E a \in Answers :
       CASE a = "KeyboardInterrupt" -> RunRaise(a)
         [] OTHER -> RunOk(IF PromptUser(a) THEN "setup_kill_server" ELSE "setup_prompt", loc)
  /\ dispFrame
  /\ runLog' = IF pc \in {runLog[k] : k \in DOMAIN runLog} THEN runLog ELSE Append(runLog, pc)
  /\ UNCHANGED <<use_frida, i, ledger, summary_file, iterLog, world, proc, st, taps, ec, duplicate>>

\* _record_setup_phase: server_process.kill_tree()
SetupKillServer ==
  /\ pc = "setup_kill_server"
  /\ RunOk("setup_stop_phone", [loc EXCEPT !.setup_server_process = "killed"])
  /\ runFrame

\* _record_setup_phase: phone.stop_pcapdroid(...) / phone.stop_tcpdump(ssh, phone_pid + 1)
SetupStopPhone ==
  /\ pc = "setup_stop_phone"
  /\ \E out \in Blocking :
       IF out = "ok"
       THEN RunOk(IF IsAndroid THEN "setup_pull" ELSE "setup_download", loc)
       ELSE RunRaise(out)
  /\ world' = IF IsAndroid THEN world
               ELSE [world EXCEPT !.setup_stop = PhoneStopPid(Runner, loc.setup_phone_pid)]
  /\ dispFrame
  /\ runLog' = Append(runLog, pc)
  /\ UNCHANGED <<use_frida, i, ledger, summary_file, iterLog, proc, st, taps, ec, duplicate>>

\* _record_setup_phase (android): phone.pull_file_to_server(...)
SetupPull ==
  /\ pc = "setup_pull"
  /\ \E out \in Blocking :
       IF out = "ok"
       THEN RunOk("setup_delete", loc) /\ world' = [world EXCEPT !.setup_file = Pulled(@)]
       ELSE RunRaise(out) /\ UNCHANGED world
  /\ dispFrame
  /\ runLog' = Append(runLog, pc)
  /\ UNCHANGED <<use_frida, i, ledger, summary_file, iterLog, proc, st, taps, ec, duplicate>>

\* _record_setup_phase (android): phone.delete_file_from_phone(...)
SetupDelete ==
  /\ pc = "setup_delete"
  /\ \E out \in Blocking :
       IF out = "ok"
       THEN RunOk("prompt_ready", loc) /\ world' = [world EXCEPT !.setup_file = Deleted(@)]
       ELSE RunRaise(out) /\ UNCHANGED world
  /\ dispFrame
  /\ runLog' = Append(runLog, pc)
  /\ UNCHANGED <<use_frida, i, ledger, summary_file, iterLog, proc, st, taps, ec, duplicate>>

\* _record_setup_phase (ios): ssh.download_remote_file(...)
SetupDownload ==
  /\ pc = "setup_download"
  /\ \E out \in Blocking, got \in SftpOutcomes, removed \in SftpOutcomes :
       IF out = "ok"
       THEN /\ RunOk("prompt_ready", loc)
            /\ world' = [world EXCEPT !.setup_file = Downloaded(@, got, removed)]
       ELSE RunRaise(out) /\ UNCHANGED world
  /\ dispFrame
  /\ runLog' = Append(runLog, pc)
  /\ UNCHANGED <<use_frida, i, ledger, summary_file, iterLog, proc, st, taps, ec, duplicate>>

\* while not prompt_user("Enter y when you finish taking the coordinates.")
PromptReady ==
  /\ pc = "prompt_ready"
  /\ \E a \in Answers :
       /\ CASE a = "KeyboardInterrupt" -> RunRaise(a)
            [] OTHER -> RunOk(IF PromptUser(a) THEN "phase_no_frida" ELSE "prompt_ready", loc)
       /\ world' = [world EXCEPT !.gate = a]
  /\ dispFrame
  /\ runLog' = IF pc \in {runLog[k] : k \in DOMAIN runLog} THEN runLog ELSE Append(runLog, pc)
  /\ UNCHANGED <<use_frida, i, ledger, summary_file, iterLog, proc, st, taps, ec, duplicate>>

\* _iteration_phase(ctx, use_frida) is entered: phone_pcap_name = None,
\* phone_tcpdump_pid = None; on iOSWanRunner ssh.create_folder(...); then the loop
EnterPhase ==
  /\ pc \in {"phase_no_frida", "phase_frida"}
  /\ LET f == (pc = "phase_frida")
         l == [loc EXCEPT !.phone_pcap_name = 0, !.phone_tcpdump_pid = 0]
     IN /\ use_frida' = f
        /\ \E out \in (IF Runner = "iOSWanRunner" THEN Blocking ELSE {"ok"}) :
             IF out = "ok"
             THEN EnterIteration(f, 1, l) /\ UNCHANGED <<exc, raised>>
             ELSE RunRaise(out) /\ UNCHANGED i
  /\ dispFrame
  /\ runLog' = Append(runLog, pc)
  /\ UNCHANGED <<ledger, summary_file, iterLog, world, proc, st, taps, ec, duplicate>>

(* ========================= context.py: ExperimentContext ========================= *)
Phases == {"no_frida", "frida"}
\* (iteration_index, success)
Entries == (1..MaxIter) \X BOOLEAN

ctxFrame ==
  UNCHANGED <<registry, cfg, pc, dispatched, errMsg, instantiated,
              use_frida, i, loc, exc, ledger, summary_file, iterLog, runLog, raised,
              world, proc, st, taps, duplicate>>

\* Text is a sequence of pieces; every blank and every line break is a piece of
\* its own, so that lines can be split and whitespace removed.
Spaces(n) == [k \in 1..n |-> " "]
\* f"{s:10s}": s, then blanks up to the width
PadRight(s, width) == <<s>> \o Spaces(IF Len(s) < width THEN width - Len(s) ELSE 0)
\* f"{n:2d}": blanks up to the width, then the decimal digits of n
PadLeft(n, width) ==
  Spaces(IF Len(ToString(n)) < width THEN width - Len(ToString(n)) ELSE 0) \o <<ToString(n)>>

RECURSIVE JoinComma(_)
\* ", ".join(str(i) for i in failed)
JoinComma(failed) ==
  IF failed = << >> THEN << >>
  ELSE IF Len(failed) = 1 THEN <<ToString(failed[1])>>
  ELSE <<ToString(failed[1]), ",", " ">> \o JoinComma(Tail(failed))

RECURSIVE JoinLines(_)
\* "\n".join(lines)
JoinLines(lines) ==
  IF lines = << >> THEN << >>
  ELSE IF Len(lines) = 1 THEN lines[1]
  ELSE lines[1] \o <<"\n">> \o JoinLines(Tail(lines))

\* failed = [idx for idx, ok in results if not ok]
FailedIndices(entries) ==
  LET f == SelectSeq(entries, LAMBDA e : ~e[2])
  IN [k \in DOMAIN f |-> f[k][1]]

\* a count of successes that ignores the failures
SuccessCountTotal(total, failed) == total
\* success = total - len(failed)
SuccessCount(total, failed) == total - Len(failed)

\* fail_str
FailStr(failed) ==
  IF failed # << >>
  THEN <<" ", "failed:", " ", "(">> \o JoinComma(failed) \o <<")">>
  ELSE << >>

\* f"{phase:10s}: {success:2d} / {total:2d}{fail_str}"
SummaryLine(phase, entries) ==
  LET total == Len(entries)
      failed == FailedIndices(entries)
      success == SuccessCount(total, failed)
  IN PadRight(phase, 10) \o <<":", " ">> \o PadLeft(success, 2)
     \o <<" ", "/", " ">> \o PadLeft(total, 2) \o FailStr(failed)

\* header = "Experiment summary:"
Header == <<"Experiment summary:">>

\* summary = header + "\n" + "\n".join(lines), one line per item of the dict
SummaryText(results) ==
  Header \o <<"\n">>
  \o JoinLines([k \in DOMAIN results |-> SummaryLine(results[k].phase, results[k].entries)])

\* a write that leaves out the final line break
WriteSummaryOnly(summary) == summary
\* out.write_text(summary + "\n", encoding="utf-8")
WriteText(summary) == summary \o <<"\n">>

\* summarise_iterations() on `results` when the write ends as `out`: what is
\* raised, what is returned, and the file afterwards (<< >>: not written)
Summarise(results, out) ==
  IF out = "ok"
  THEN [raised |-> "none", returned |-> <<SummaryText(results)>>,
        file |-> <<WriteText(SummaryText(results))>>]
  ELSE [raised |-> "RuntimeError", returned |-> << >>, file |-> << >>]

\* the place of `phase` in the dict, 0 when it has no item yet
PhaseIndex(results, phase) ==
  IF \E j \in DOMAIN results : results[j].phase = phase
  THEN CHOOSE j \in DOMAIN results : results[j].phase = phase
  ELSE 0

\* self._iteration_results[phase].append((iteration_index, success)) on a
\* defaultdict(list): a new phase becomes the last item of the dict
AppendResult(results, phase, index, success) ==
  IF PhaseIndex(results, phase) = 0
  THEN Append(results, [phase |-> phase, entries |-> << <<index, success>> >>])
  ELSE [results EXCEPT ![PhaseIndex(results, phase)].entries = Append(@, <<index, success>>)]

\* the ledger of a run as the dict it is: run() records no_frida before frida
ResultsOf(l) ==
  LET order == SelectSeq(<<"no_frida", "frida">>, LAMBDA ph : ph \in DOMAIN l)
  IN [k \in DOMAIN order |-> [phase |-> order[k], entries |-> l[order[k]]]]

\* ExperimentContext(...): _iteration_results = defaultdict(list)
NewContext ==
  /\ ec = NoContext
  /\ ec' = [at |-> "idle", results |-> << >>, before |-> << >>, file |-> << >>,
            returned |-> << >>, raised |-> "none"]
  /\ ctxFrame

\* record_iteration_result(phase, iteration_index, success)
RecordIterationResultCall ==
  /\ ec.at = "idle"
  /\ \E phase \in Phases, e \in Entries :
       /\ PhaseIndex(ec.results, phase) # 0 =>
            Len(ec.results[PhaseIndex(ec.results, phase)].entries) < MaxIter
       /\ ec' = [ec EXCEPT !.results = AppendResult(@, phase, e[1], e[2])]
  /\ ctxFrame

\* summarise_iterations()
SummariseCall ==
  /\ ec.at = "idle"
  /\ \E out \in {"ok", "OSError"} :
       LET r == Summarise(ec.results, out)
       IN ec' = [ec EXCEPT !.at = "summarised", !.before = ec.results, !.file = r.file,
                           !.returned = r.returned, !.raised = r.raised]
  /\ ctxFrame

InitSummary ==
  /\ registry = BuiltinRegistry
  /\ cfg = [platform |-> "android", network_profile |-> "lan",
            no_frida_iterations |-> 0, frida_iterations |-> 0]
  /\ InitRun

NextSummary == NewContext \/ RecordIterationResultCall \/ SummariseCall

SpecSummary == InitSummary /\ [][NextSummary]_vars

(* ------------------- run(): the finally block -------------------------- *)
\* the statements after the kill of the overall capture: clean_up(ctx) on
\* android, the summary on ios
RunCleanup(r) ==
  CASE r = "AndroidLanRunner" ->
         <<"pull_bluetooth_log", "uninstall_app", "reboot", "summarise_iterations">>
    [] r = "AndroidWanRunner" -> <<"uninstall_app", "summarise_iterations">>
    [] OTHER -> <<"summarise_iterations">>

RunCleanupAfter(r, p) ==
  LET steps == RunCleanup(r)
      k == CHOOSE j \in DOMAIN steps : steps[j] = p
  IN steps[k + 1]

\* a statement of run()'s finally block raises: run() is left with it; clean_up
\* (android) turns an Exception into ExperimentError
FinallyRaise(kind) ==
  /\ raised' = Append(raised, <<pc, kind>>)
  /\ dispatched' = DispatchResult(IF kind = "KeyboardInterrupt" THEN kind
                                   ELSE IF IsAndroid THEN "ExperimentError"
                                   ELSE "RuntimeError")
  /\ pc' = "exit"
  /\ UNCHANGED <<exc, loc>>

finallyFrame ==
  /\ runLog' = Append(runLog, pc)
  /\ UNCHANGED <<registry, cfg, errMsg, instantiated, use_frida, i, ledger, iterLog, world, proc, st, taps, ec, duplicate>>

\* if overall_process: overall_process.kill_tree()
KillOverall ==
  /\ pc = "kill_overall"
  /\ pc' = RunCleanup(Runner)[1]
  /\ loc' = IF loc.overall_process = "None" THEN loc
            ELSE [loc EXCEPT !.overall_process = "killed"]
  /\ runLog' = IF loc.overall_process = "None" THEN runLog ELSE Append(runLog, pc)
  /\ UNCHANGED <<registry, cfg, errMsg, instantiated, use_frida, i, ledger, iterLog, world, proc, st, taps, ec, duplicate>>
  /\ UNCHANGED <<dispatched, exc, raised, summary_file>>

\* clean_up (android lan): phone.pull_bluetooth_log_to_server(...)
PullBluetoothLog ==
  /\ pc = "pull_bluetooth_log"
  /\ \E out \in Blocking :
       IF out = "ok"
       THEN /\ pc' = RunCleanupAfter(Runner, pc)
            /\ UNCHANGED <<dispatched, exc, raised, loc>>
       ELSE FinallyRaise(out)
  /\ UNCHANGED summary_file
  /\ finallyFrame

\* clean_up (android): phone.uninstall_app(ctx.phone_id, ctx.package_name)
UninstallApp ==
  /\ pc = "uninstall_app"
  /\ \E out \in Blocking :
       IF out = "ok"
       THEN /\ pc' = RunCleanupAfter(Runner, pc)
            /\ UNCHANGED <<dispatched, exc, raised, loc>>
       ELSE FinallyRaise(out)
  /\ UNCHANGED summary_file
  /\ finallyFrame

\* clean_up (android lan): phone.reboot(ctx.phone_id)
Reboot ==
  /\ pc = "reboot"
  /\ \E out \in Blocking :
       IF out = "ok"
       THEN /\ pc' = RunCleanupAfter(Runner, pc)
            /\ UNCHANGED <<dispatched, exc, raised, loc>>
       ELSE FinallyRaise(out)
  /\ UNCHANGED summary_file
  /\ finallyFrame

\* summary = ctx.summarise_iterations(): the summary file is written, or the
\* write fails with RuntimeError; then run() returns or re-raises what is in flight
SummariseIterations ==
  /\ pc = "summarise_iterations"
  /\ \E out \in Fallible :
       IF out = "ok"
       THEN /\ summary_file' = Summarise(ResultsOf(ledger), out).file
            /\ dispatched' = DispatchResult(IF exc = "none" THEN "returned" ELSE exc)
            /\ pc' = "exit"
            /\ UNCHANGED <<exc, raised, loc>>
       ELSE FinallyRaise(out) /\ UNCHANGED summary_file
  /\ finallyFrame

(* --------------------------- specification ----------------------------- *)
\* the program after cli.py's imports, with a validated configuration
Init ==
  /\ registry = BuiltinRegistry
  /\ cfg \in [platform : Platforms, network_profile : NetworkProfiles,
              no_frida_iterations : 0..MaxIter, frida_iterations : 0..MaxIter]
  /\ InitRun

IterationBody ==
  \/ ApplyRulesUp \/ StartServerTcpdump \/ StartPhoneCapture \/ StartRemoteTcpdump
  \/ StartMitmdump \/ StartFrida \/ StartObjection \/ StartApp \/ SleepStartApp
  \/ TriggerTapsOnPhone \/ SleepBetweenIterations

IterationCleanup ==
  \/ StopRemoteTcpdump \/ StopPhoneCapture \/ KillServerProcess \/ KillMitmProcess
  \/ KillFridaProcess \/ PullPhonePcap \/ DeletePhonePcap \/ DownloadPhonePcap
  \/ DownloadRemotePcap \/ ResetTerminal \/ ApplyRulesDown \/ StopApp \/ SleepStopApp
  \/ RecordResult \/ IterationEnd

RunTry ==
  \/ EnterRun \/ Bluetooth \/ StartOverall \/ CreateFolder \/ PromptSetup
  \/ SetupStartServer \/ SetupStartPhone \/ SetupPrompt \/ SetupKillServer
  \/ SetupStopPhone \/ SetupPull \/ SetupDelete \/ SetupDownload
  \/ PromptReady \/ EnterPhase

RunFinally ==
  \/ KillOverall \/ PullBluetoothLog \/ UninstallApp \/ Reboot \/ SummariseIterations

Next == Dispatch \/ RunTry \/ IterationBody \/ IterationCleanup \/ RunFinally

Spec == Init /\ [][Next]_vars

(* ======================= utils/process_handler.py ======================= *)
\* what a command writes to a stream before it is read
Outs == {"", "out"}
\* exit codes of a command that ends by itself
ExitCodes == {0, 1}
\* the timeout argument of run_and_wait: -1 stands for None
Timeouts == {-1} \cup (1..MaxTimeout)
Dispositions == {"exit", "ignore"}

procFrame ==
  UNCHANGED <<registry, cfg, pc, dispatched, errMsg, instantiated,
              use_frida, i, loc, exc, ledger, summary_file, iterLog, runLog, raised,
              world, st, taps, ec, duplicate>>

\* subprocess.Popen(args, ..., start_new_session=True): the direct child leads
\* a new process group; it may have forked a descendant into the same group.
\* on_term is what each of them does on SIGTERM; signalable is whether the
\* caller is permitted to signal them.
Popen(op, step, timeout, check) ==
  /\ proc.op = "none"
  /\ \E child \in {"none", "running"}, tp \in Dispositions, tc \in Dispositions,
        signalable \in BOOLEAN, o \in Outs, e \in Outs :
       proc' = [op |-> op, step |-> step, parent |-> "running", child |-> child,
                on_term |-> [parent |-> tp, child |-> tc], signalable |-> signalable,
                exit_status |-> 0, stdout_data |-> o, stderr_data |-> e,
                timeout |-> timeout, check |-> check,
                e_output |-> "None", stdout |-> "None", stderr |-> "None",
                result |-> [kind |-> "pending"],
                polled |-> "None", calls |-> << >>, call_raised |-> "none",
                sent |-> << >>]
  /\ procFrame

\* the direct child ends by itself: it stays a zombie until it is waited for
ParentExits ==
  /\ proc.op # "none"
  /\ proc.parent = "running"
  /\ \E rc \in ExitCodes : proc' = [proc EXCEPT !.parent = "zombie", !.exit_status = rc]
  /\ procFrame

\* the descendant ends by itself
ChildExits ==
  /\ proc.op # "none"
  /\ proc.child = "running"
  /\ proc' = [proc EXCEPT !.child = "dead"]
  /\ procFrame

\* Popen.poll() / Popen.wait(): a zombie is reaped and returncode is set
Reaped(p) == [p EXCEPT !.parent = IF @ = "zombie" THEN "reaped" ELSE @]

\* the group after signal sig (9 or 15) reached every member of it
Delivered(p, sig) ==
  [p EXCEPT
     !.parent = IF @ = "running" /\ (sig = 9 \/ p.on_term.parent = "exit")
                THEN "zombie" ELSE @,
     !.exit_status = IF p.parent = "running" /\ (sig = 9 \/ p.on_term.parent = "exit")
                     THEN 0 - sig ELSE @,
     !.child = IF @ = "running" /\ (sig = 9 \/ p.on_term.child = "exit")
               THEN "dead" ELSE @]

\* os.killpg(os.getpgid(pid), sig): the exception it raises, "none" if none.
\* getpgid fails once the direct child has been reaped; killpg fails when the
\* caller may not signal the group.
KillpgRaises(p) ==
  IF p.parent = "reaped" THEN "ProcessLookupError"
  ELSE IF ~p.signalable THEN "PermissionError"
  ELSE "none"

\* popen.terminate() / popen.kill(): Popen.send_signal polls first and does
\* nothing when the child has ended; otherwise os.kill(pid, sig) on the direct
\* child alone
PopenSignalRaises(p) ==
  IF p.parent = "running" /\ ~p.signalable THEN "PermissionError" ELSE "none"
PopenSignalled(p, sig) ==
  IF p.parent = "running" /\ p.signalable
  THEN [p EXCEPT !.parent = "zombie", !.exit_status = 0 - sig]
  ELSE Reaped(p)

\* what a signal statement aims at: the process group, or after a failed
\* killpg the direct child alone
Target(p) == IF KillpgRaises(p) = "none" THEN "group" ELSE "child"

\* a handler that lets the exception through
ExceptReraise(e) == e
\* `except Exception: pass`
ExceptPass(e) == "none"

\* try: killpg(...) except Exception: try: popen.<signal>() except Exception: pass
\* - the exception that leaves the statement
SignalGroupRaises(p) ==
  IF KillpgRaises(p) = "none" THEN "none" ELSE ExceptPass(PopenSignalRaises(p))
\* - the processes afterwards
SignalGroup(p, sig) ==
  IF KillpgRaises(p) = "none" THEN Delivered(p, sig) ELSE PopenSignalled(p, sig)

\* run_and_wait(args, timeout=timeout, check=check), up to proc.communicate
RunAndWait ==
  \E timeout \in Timeouts, check \in BOOLEAN :
     Popen("run_and_wait", "communicate", timeout, check)

\* both pipes are at end of file: no process of the group holds them any more
PipesClosed(p) == p.parent # "running" /\ p.child # "running"

\* stdout, stderr = proc.communicate(timeout=timeout): it returns once the pipes
\* are closed and the child is reaped, or raises TimeoutExpired carrying the
\* output read so far (None if none)
Communicate ==
  /\ proc.op = "run_and_wait"
  /\ proc.step = "communicate"
  /\ \/ /\ PipesClosed(proc)
        /\ proc' = [Reaped(proc) EXCEPT !.stdout = proc.stdout_data,
                                        !.stderr = proc.stderr_data,
                                        !.step = "check"]
     \/ /\ ~PipesClosed(proc)
        /\ proc.timeout # -1
        /\ \E part \in {"None", proc.stdout_data} :
             proc' = [proc EXCEPT !.e_output = part, !.step = "killpg_term"]
  /\ procFrame

\* except TimeoutExpired: os.killpg(os.getpgid(proc.pid), signal.SIGTERM), with
\* the fallback proc.terminate()
KillpgTerm ==
  /\ proc.op = "run_and_wait"
  /\ proc.step = "killpg_term"
  /\ proc' = [SignalGroup(proc, 15) EXCEPT !.step = "wait",
                                           !.call_raised = SignalGroupRaises(proc),
                                           !.sent = Append(@, <<15, Target(proc)>>)]
  /\ procFrame

\* a wait that never runs out of time
WaitRaisesNever(p) == FALSE
\* proc.wait(timeout=2) raises TimeoutExpired: the direct child has not ended
\* by the end of the two seconds
WaitRaises(p) == p.parent = "running"

\* proc.wait(timeout=2): returns when the direct child has ended; only when it
\* has not, the except branch sends SIGKILL to the group
Wait ==
  /\ proc.op = "run_and_wait"
  /\ proc.step = "wait"
  /\ proc' = IF ~WaitRaises(proc)
             THEN [Reaped(proc) EXCEPT !.step = "communicate_final"]
             ELSE [SignalGroup(proc, 9) EXCEPT !.step = "communicate_final",
                                               !.call_raised = SignalGroupRaises(proc),
                                               !.sent = Append(@, <<9, Target(proc)>>)]
  /\ procFrame

\* proc.communicate(timeout=1), else the output of the first TimeoutExpired;
\* then raise subprocess.TimeoutExpired(args, timeout, output=stdout, stderr=stderr)
CommunicateFinal ==
  /\ proc.op = "run_and_wait"
  /\ proc.step = "communicate_final"
  /\ LET out == IF PipesClosed(proc) THEN proc.stdout_data ELSE proc.e_output
         err == IF PipesClosed(proc) THEN proc.stderr_data ELSE "None"
         p == IF PipesClosed(proc) THEN Reaped(proc) ELSE proc
     IN proc' = [p EXCEPT !.stdout = out, !.stderr = err, !.step = "done",
                          !.result = [kind |-> "TimeoutExpired", timeout |-> proc.timeout,
                                      returncode |-> 0, stdout |-> out, stderr |-> err]]
  /\ procFrame

\* a run_and_wait that raises whenever the exit code is not zero
RaisesOnNonzero(check, returncode) == returncode # 0
\* `if check and proc.returncode:`
RaisesCalledProcessError(check, returncode) == check /\ returncode # 0

\* the end of run_and_wait after a completed communicate
Check ==
  /\ proc.op = "run_and_wait"
  /\ proc.step = "check"
  /\ proc' = [proc EXCEPT
                !.step = "done",
                !.result = [kind |-> IF RaisesCalledProcessError(proc.check, proc.exit_status)
                                     THEN "CalledProcessError" ELSE "CompletedProcess",
                            timeout |-> -1,
                            returncode |-> proc.exit_status,
                            stdout |-> proc.stdout, stderr |-> proc.stderr]]
  /\ procFrame

\* run_local(args): the handle is returned at once
RunLocal == Popen("run_local", "handle", -1, FALSE)

\* ProcessHandle.is_running(): popen.poll() is None
IsRunning ==
  /\ proc.op = "run_local"
  /\ proc' = [Reaped(proc) EXCEPT !.polled = IF proc.parent = "running" THEN "True" ELSE "False",
                                  !.calls = IF Len(@) < MaxCalls THEN Append(@, "is_running") ELSE @]
  /\ procFrame

\* ProcessHandle.terminate()
Terminate ==
  /\ proc.op = "run_local"
  /\ Len(proc.calls) < MaxCalls
  /\ proc' = [SignalGroup(proc, 15) EXCEPT !.calls = Append(@, "terminate"),
                                           !.call_raised = SignalGroupRaises(proc)]
  /\ procFrame

\* ProcessHandle.kill_tree()
KillTree ==
  /\ proc.op = "run_local"
  /\ Len(proc.calls) < MaxCalls
  /\ proc' = [SignalGroup(proc, 9) EXCEPT !.calls = Append(@, "kill_tree"),
                                          !.call_raised = SignalGroupRaises(proc)]
  /\ procFrame

InitProc ==
  /\ registry = BuiltinRegistry
  /\ cfg = [platform |-> "android", network_profile |-> "lan",
            no_frida_iterations |-> 0, frida_iterations |-> 0]
  /\ InitRun

NextProc ==
  \/ RunAndWait \/ Communicate \/ KillpgTerm \/ Wait \/ CommunicateFinal \/ Check
  \/ RunLocal \/ IsRunning \/ Terminate \/ KillTree
  \/ ParentExits \/ ChildExits

SpecProc == InitProc /\ [][NextProc]_vars


(* ========================= utils/sleep_times.py ========================= *)
Keys == {"start_app", "after_tap"}
\* the values a YAML document may give a key: numbers, a boolean (an int to
\* isinstance), a string
YamlValues ==
  {[kind |-> "int", v |-> n] : n \in 1..MaxSeconds}
  \cup {[kind |-> "bool", v |-> 1], [kind |-> "str", v |-> 0]}
EmptyMapping == [k \in {} |-> 0]
\* the documents the backing file may hold: a mapping, a non-empty list, an
\* empty list, or nothing at all (safe_load gives None)
YamlDocs ==
  {[top |-> "mapping", vals |-> f] :
      f \in UNION {[ks -> {y \in YamlValues : y.kind = "int"}] : ks \in SUBSET Keys}}
  \cup {[top |-> "mapping", vals |-> [k \in {"start_app"} |-> y]] :
          y \in {y \in YamlValues : y.kind # "int"}}
  \cup {[top |-> t, vals |-> EmptyMapping] : t \in {"list", "empty_list", "null"}}
\* the defaults callers pass: none of them is a value the file can hold
Defaults == {MaxSeconds + 1}

sleepFrame ==
  UNCHANGED <<registry, cfg, pc, dispatched, errMsg, instantiated,
              use_frida, i, loc, exc, ledger, summary_file, iterLog, runLog, raised,
              world, proc, taps, ec, duplicate>>

\* _Cache(): last_modified_time = -1.0, parsed_values = None (loaded = FALSE)
NewCache == [last_modified_time |-> -1, loaded |-> FALSE, parsed |-> EmptyMapping]
\* _Cache(last_modified_time=-1.0, parsed_values={})
EmptyCache == [last_modified_time |-> -1, loaded |-> TRUE, parsed |-> EmptyMapping]
\* no get has been made since the file last changed
NoCall ==
  [called |-> FALSE, key |-> "start_app", default |-> 0, result |-> 0, raised |-> "none",
   warned |-> FALSE, read |-> FALSE, pre_loaded |-> FALSE, pre_mtime |-> -1,
   prev |-> "first"]

\* SleepTimes(path): path None, or the path of a file that need not exist
NewSleepTimes ==
  /\ st.path = "unset"
  /\ \E path \in {"none", "file"} :
       st' = [path |-> path,
              file |-> [present |-> FALSE, mtime |-> 0, content |-> [top |-> "null", vals |-> EmptyMapping]],
              cache |-> NewCache, last |-> NoCall, seen |-> "first"]
  /\ sleepFrame

\* the file is created or rewritten; its modification time moves on, or stays
\* (a rewrite within the granularity of the time stamp)
WriteFile ==
  /\ st.path = "file"
  /\ \E doc \in YamlDocs, m \in 1..MaxMtime :
       /\ m >= st.file.mtime
       /\ (st.file.present /\ m = st.file.mtime) => doc # st.file.content
       /\ st' = [st EXCEPT !.file = [present |-> TRUE, mtime |-> m, content |-> doc],
                           !.last = NoCall]
  /\ sleepFrame

\* the file is removed
RemoveFile ==
  /\ st.path = "file"
  /\ st.file.present
  /\ st' = [st EXCEPT !.file.present = FALSE, !.last = NoCall]
  /\ sleepFrame

\* yaml.safe_load(raw_text) or {}: a falsy document counts as the empty mapping
SafeLoadOrEmpty(doc) ==
  IF doc.top \in {"null", "empty_list"}
  THEN [top |-> "mapping", vals |-> EmptyMapping]
  ELSE doc
\* isinstance(value, (int, float)): true of a bool as well
IsNumber(y) == y.kind \in {"int", "bool"}
\* the ValueError of lines 61-71, "none" if the document is accepted
ParseRaises(raw) ==
  IF raw.top # "mapping" THEN "ValueError"
  ELSE IF \E k \in DOMAIN raw.vals : ~IsNumber(raw.vals[k]) THEN "ValueError"
  ELSE "none"
\* parsed[str(key)] = float(value)
Parsed(raw) == [k \in DOMAIN raw.vals |-> raw.vals[k].v]

\* a cache kept when the file is missing
KeepCache(c) == c
\* the cache after FileNotFoundError
CacheOnMissing(c) == EmptyCache

\* a staleness check that always re-reads
NeverUnchanged(c, f) == FALSE
\* current_modified_time == cache.last_modified_time and parsed_values is not None
Unchanged(c, f) == f.mtime = c.last_modified_time /\ c.loaded

\* _load_if_file_changed(): the cache afterwards, the exception raised, whether
\* the warning was logged and whether the file was read
LoadIfFileChanged(s) ==
  IF s.path = "none"
  THEN [cache |-> IF s.cache.loaded THEN s.cache ELSE EmptyCache,
        raised |-> "none", warned |-> FALSE, read |-> FALSE]
  ELSE IF ~s.file.present
  THEN [cache |-> CacheOnMissing(s.cache), raised |-> "none",
        warned |-> (~s.cache.loaded \/ s.cache.last_modified_time # -1),
        read |-> FALSE]
  ELSE IF Unchanged(s.cache, s.file)
  THEN [cache |-> s.cache, raised |-> "none", warned |-> FALSE, read |-> FALSE]
  ELSE LET raw == SafeLoadOrEmpty(s.file.content)
       IN IF ParseRaises(raw) # "none"
          THEN [cache |-> s.cache, raised |-> ParseRaises(raw), warned |-> FALSE, read |-> TRUE]
          ELSE [cache |-> [last_modified_time |-> s.file.mtime, loaded |-> TRUE,
                           parsed |-> Parsed(raw)],
                raised |-> "none", warned |-> FALSE, read |-> TRUE]

\* float(data.get(key, default))
Lookup(data, key, default) == IF key \in DOMAIN data THEN data[key] ELSE default

\* SleepTimes.get(key, default)
Get ==
  /\ st.path \in {"none", "file"}
  /\ \E key \in Keys, default \in Defaults :
       LET l == LoadIfFileChanged(st)
       IN st' = [st EXCEPT
                   !.cache = l.cache,
                   !.seen = IF st.path = "none" THEN @
                            ELSE IF st.file.present THEN "present" ELSE "absent",
                   !.last = [called |-> TRUE, key |-> key, default |-> default,
                             result |-> IF l.raised = "none"
                                        THEN Lookup(l.cache.parsed, key, default) ELSE 0,
                             raised |-> l.raised, warned |-> l.warned, read |-> l.read,
                             pre_loaded |-> st.cache.loaded,
                             pre_mtime |-> st.cache.last_modified_time,
                             prev |-> st.seen]]
  /\ sleepFrame

InitSleep ==
  /\ registry = BuiltinRegistry
  /\ cfg = [platform |-> "android", network_profile |-> "lan",
            no_frida_iterations |-> 0, frida_iterations |-> 0]
  /\ InitRun

NextSleep == NewSleepTimes \/ WriteFile \/ RemoveFile \/ Get

SpecSleep == InitSleep /\ [][NextSleep]_vars


(* ============ communication/android.py, ios.py: trigger_taps_on_phone ============ *)
\* what a line of the coordinates file can be: "tap X Y" with integers, an empty
\* or comment line, a line that is not three words beginning with tap, and
\* "tap X Y" where X or Y is not an integer
LineKinds == {"tap", "blank", "bad_shape", "bad_coords"}
CoordinateFiles == UNION {[1..n -> LineKinds] : n \in 0..MaxTaps}
\* what compare_images gives: a score, or an exception
Comparisons ==
  {[kind |-> "scored", score |-> s] : s \in Scores} \cup {[kind |-> "compare_error", score |-> 0]}

tapsFrame ==
  UNCHANGED <<registry, cfg, pc, dispatched, errMsg, instantiated,
              use_frida, i, loc, exc, ledger, summary_file, iterLog, runLog, raised,
              world, proc, st, ec, duplicate>>

\* perform_tap raises ValueError: both platforms reject a line that is not
\* three words beginning with tap; only _parse_tap_line (iOS) converts the
\* coordinates with int()
PerformTapRaisesValueError(platform, line) ==
  \/ line = "bad_shape"
  \/ platform = "ios" /\ line = "bad_coords"

\* perform_tap reaches the device: _adb(phone_id, "shell", "input", tap) or
\* _session.click(x, y); an empty or comment line returns before
PerformTapActs(platform, line) ==
  ~PerformTapRaisesValueError(platform, line) /\ line # "blank"

\* the for loop moves to the line after k, or falls out of the with block
NextLine(t) ==
  IF t.k < Len(t.file)
  THEN [t EXCEPT !.k = t.k + 1, !.at = "perform_tap"]
  ELSE [t EXCEPT !.at = "return"]

\* trigger_taps_on_phone(ctx, iteration, frida) up to the for loop
TriggerTapsCall ==
  /\ taps = NoTaps
  /\ \E platform \in Platforms, file \in CoordinateFiles, found \in BOOLEAN :
       taps' = [platform |-> platform, file |-> file, k |-> 1, success |-> TRUE,
                log |-> << >>, warned |-> << >>, failed |-> {},
                at |-> IF ~found THEN "raised"
                       ELSE IF file = << >> THEN "return" ELSE "perform_tap",
                exc |-> IF found THEN "none" ELSE "FileNotFoundError"]
  /\ tapsFrame

\* try: perform_tap(...) except ValueError: logger.warning(...); continue
\* time.sleep(after_tap_sleep)
PerformTap ==
  /\ taps.at = "perform_tap"
  /\ LET line == taps.file[taps.k]
     IN IF PerformTapRaisesValueError(taps.platform, line)
        THEN taps' = NextLine([taps EXCEPT !.warned = Append(@, taps.k)])
        ELSE \E out \in Blocking :
               IF out # "ok"
               THEN taps' = [taps EXCEPT !.at = "raised", !.exc = out]
               ELSE taps' = [taps EXCEPT
                               !.at = "take_screenshot",
                               !.log = IF PerformTapActs(taps.platform, line)
                                       THEN Append(@, <<"tap", taps.k>>) ELSE @]
  /\ tapsFrame

\* take_screenshot(...)
TakeScreenshot ==
  /\ taps.at = "take_screenshot"
  /\ \E out \in Fallible :
       IF out # "ok"
       THEN taps' = [taps EXCEPT !.at = "raised", !.exc = out]
       ELSE taps' = [taps EXCEPT !.at = "compare_images",
                                 !.log = Append(@, <<"screenshot", taps.k>>)]
  /\ tapsFrame

\* try: score = compare_images(...); if score < threshold: success = False
\* except Exception: success = False
\* time.sleep(after_similarity_sleep)
CompareImages ==
  /\ taps.at = "compare_images"
  /\ \E c \in Comparisons, out \in {"ok", "KeyboardInterrupt"} :
       LET bad == c.kind = "compare_error" \/ BelowThreshold(c.score)
           t == [taps EXCEPT !.log = Append(@, <<"compare", taps.k>>),
                             !.success = IF bad THEN FALSE ELSE @,
                             !.failed = IF bad THEN @ \cup {taps.k} ELSE @]
       IN taps' = IF out = "ok" THEN NextLine(t)
                  ELSE [t EXCEPT !.at = "raised", !.exc = out]
  /\ tapsFrame

\* return success
ReturnSuccess ==
  /\ taps.at = "return"
  /\ taps' = [taps EXCEPT !.at = "returned"]
  /\ tapsFrame

InitTaps ==
  /\ registry = BuiltinRegistry
  /\ cfg = [platform |-> "android", network_profile |-> "lan",
            no_frida_iterations |-> 0, frida_iterations |-> 0]
  /\ InitRun

NextTaps == TriggerTapsCall \/ PerformTap \/ TakeScreenshot \/ CompareImages \/ ReturnSuccess

SpecTaps == InitTaps /\ [][NextTaps]_vars


(* ------------------------- claims: dispatch ---------------------------- *)
\* indices of the registry entries whose can_handle accepts the configuration
MatchIdx == {k \in DOMAIN registry : CanHandle(registry[k].cls, cfg)}
\* ... and those of them at the maximum priority among the matches
TopIdx == {k \in MatchIdx : \A j \in MatchIdx : registry[j].priority <= registry[k].priority}
DispatchDone == pc \in {"run", "exit"}

\* C8: with no registered runner accepting the configuration, dispatch fails
\* with RunnerNotFoundError and no runner is instantiated or run.
C8_NoMatchFails ==
  (DispatchDone /\ MatchIdx = {}) =>
     (dispatched = "RunnerNotFoundError" /\ instantiated = << >> /\ pc = "exit")
\* C8 witness: a non-empty registry none of whose runners accepts the configuration
C8_Witness ==
  /\ DispatchDone /\ MatchIdx = {} /\ Len(registry) >= 2
  /\ dispatched = "RunnerNotFoundError"

\* C9: when two or more matches share the maximum priority, dispatch fails with
\* RunnerAmbiguousError naming every tied candidate with its priority, and no
\* runner is instantiated or run.
C9_TieIsAmbiguous ==
  (DispatchDone /\ Cardinality(TopIdx) >= 2) =>
     /\ dispatched = "RunnerAmbiguousError"
     /\ pc = "exit"
     /\ instantiated = << >>
     /\ Len(errMsg) = Cardinality(TopIdx)
     /\ {errMsg[j] : j \in DOMAIN errMsg}
          = {<<registry[k].name, registry[k].priority>> : k \in TopIdx}
\* C9 witness: a tie at the maximum priority above a lower-priority match
C9_Witness ==
  /\ DispatchDone /\ Cardinality(TopIdx) >= 2 /\ MatchIdx # TopIdx
  /\ dispatched = "RunnerAmbiguousError"

\* C10: when exactly one match has the maximum priority, dispatch instantiates
\* and runs exactly that runner, once, whatever the number of lower-priority
\* matches and whatever the registration order.
C10_UniqueTopRuns ==
  (DispatchDone /\ Cardinality(TopIdx) = 1) =>
     /\ \A k \in TopIdx : instantiated = <<registry[k].cls>>
     /\ dispatched \notin {"RunnerNotFoundError", "RunnerAmbiguousError"}
\* C10 witness: the selected runner was registered after two lower-priority matches
C10_Witness ==
  /\ pc = "exit" /\ dispatched = "returned"
  /\ Cardinality(TopIdx) = 1 /\ Cardinality(MatchIdx) >= 3
  /\ \A k \in TopIdx : \A j \in MatchIdx : j <= k

(* ------------------------ claims: iterations --------------------------- *)
Range(s) == {s[k] : k \in DOMAIN s}
BodySteps == Range(Body(Runner, use_frida))
CleanupSteps == Range(Cleanup(Runner, use_frida))
FinallyPcs == {"kill_overall", "pull_bluetooth_log", "uninstall_app", "reboot",
               "summarise_iterations"}
RunEntered == instantiated # << >> /\ pc # "run"

\* an exception of one of `kinds` was raised at one of `steps`
RaisedAt(steps, kinds) ==
  \E k \in DOMAIN raised : raised[k][1] \in steps /\ raised[k][2] \in kinds
\* the failures the environment caused (the others are the runner's own
\* AttributeError / TypeError on a local that is still None)
EnvRaises == {k \in DOMAIN raised : raised[k][2] \in {"Exception", "KeyboardInterrupt"}}

\* iteration i of the phase in progress has been started and control has left it:
\* its finally block completed, or an exception left _iteration_phase
IterOver ==
  /\ RunEntered
  /\ \/ pc = "iter_end"
     \/ /\ pc \in FinallyPcs \cup {"exit"}
        /\ instantiated # << >>
        /\ RaisedAt(BodySteps \cup CleanupSteps, {"Exception", "KeyboardInterrupt"})

\* the ledger entries of the phase in progress that carry index k
EntriesFor(k) ==
  LET l == LedgerOf(ledger, PhaseName)
  IN {j \in DOMAIN l : l[j][1] = k}
\* the cleanup steps iteration i owes: every step of the finally block, the two
\* conditional kills only when the handle was started
OwedCleanup ==
  (CleanupSteps \ {"kill_mitm_process", "kill_frida_process"})
  \cup (IF loc.mitm_process # "None" THEN {"kill_mitm_process"} ELSE {})
  \cup (IF loc.frida_process # "None" THEN {"kill_frida_process"} ELSE {})

\* _iteration_phase(f) was called, its loop was reached, and control has left it
PhaseOver(f) ==
  /\ RunEntered
  /\ (IF f THEN "phase_frida" ELSE "phase_no_frida") \in Range(runLog)
  /\ ~RaisedAt({"phase_no_frida", "phase_frida"}, {"Exception", "KeyboardInterrupt"})
  /\ pc \in (IF f THEN {} ELSE {"phase_frida"}) \cup FinallyPcs \cup {"exit"}
  /\ (use_frida = f \/ ~f)

\* C1: once _iteration_phase has been left, the ledger of that phase holds exactly
\* N entries, one for each index 1..N, whatever steps of its iterations raised.
C1_ExactlyNEntries ==
  \A f \in BOOLEAN :
    PhaseOver(f) =>
      LET l == LedgerOf(ledger, IF f THEN "frida" ELSE "no_frida")
      IN [k \in DOMAIN l |-> l[k][1]] = [k \in 1..NumIter(f) |-> k]

CaptureStarts == {"start_server_tcpdump", "start_phone_capture", "start_remote_tcpdump"}

\* C2: an iteration whose capture-start step raised (and in which the environment
\* failed no other step) has exactly one ledger entry, marked failed, and its
\* app-stop and teardown-sleep cleanup steps were executed.
C2_CaptureStartFailureRecorded ==
  (IterOver /\ RaisedAt(CaptureStarts, {"Exception"}) /\ Cardinality(EnvRaises) = 1) =>
     /\ Cardinality(EntriesFor(i)) = 1
     /\ \A j \in EntriesFor(i) : LedgerOf(ledger, PhaseName)[j][2] = FALSE
     /\ {"stop_app", "sleep_stop_app"} \subseteq Range(iterLog)

\* C3: an exception raised by a step of an iteration's body (the only failure the
\* environment caused) does not escape _iteration_phase: the iteration is
\* recorded as failed and the loop goes on; the run is not aborted.
C3_BodyExceptionContained ==
  (IterOver /\ RaisedAt(BodySteps, {"Exception"}) /\ Cardinality(EnvRaises) = 1) =>
     /\ pc = "iter_end"
     /\ exc = "none"
     /\ \E j \in EntriesFor(i) : LedgerOf(ledger, PhaseName)[j][2] = FALSE

RunCleanupSteps == Range(RunCleanup(Runner))
\* C4: a cleanup step that raised did not keep the later cleanup steps from
\* running, in the iteration's cleanup and in the run-level cleanup, and its
\* exception was not re-raised.
C4_CleanupStepsIndependent ==
  /\ (IterOver /\ RaisedAt(CleanupSteps, {"Exception"})) =>
        (OwedCleanup \subseteq Range(iterLog) /\ pc = "iter_end")
  /\ (RunEntered /\ pc = "exit"
        /\ RaisedAt(RunCleanupSteps \ {"summarise_iterations"}, {"Exception"})) =>
        RunCleanupSteps \subseteq Range(runLog)

\* C5: when run() has returned or raised, the summary of the iterations recorded
\* so far has been written (unless the write itself failed).
C5_SummaryAlwaysWritten ==
  (RunEntered /\ pc = "exit" /\ ~RaisedAt({"summarise_iterations"}, {"Exception"})) =>
     summary_file = <<WriteText(SummaryText(ResultsOf(ledger)))>>

\* C6: when the process exits after an operator interrupt during a blocking wait
\* of an iteration (the only failure of that iteration), the iteration's whole
\* cleanup and the run-level cleanup have been executed.
C6_InterruptRunsCleanup ==
  (RunEntered /\ pc = "exit"
     /\ RaisedAt(BodySteps \cup CleanupSteps, {"KeyboardInterrupt"})
     /\ Cardinality(EnvRaises) = 1) =>
     /\ OwedCleanup \subseteq Range(iterLog)
     /\ RunCleanupSteps \subseteq Range(runLog)

\* the steps of the body up to the one that produces the verification result
RECURSIVE UpTo(_, _)
UpTo(s, p) == IF s = << >> THEN {} ELSE IF Head(s) = p THEN {p} ELSE {Head(s)} \cup UpTo(Tail(s), p)
BeforeVerification == UpTo(Body(Runner, use_frida), "trigger_taps_on_phone")

\* C7: an iteration whose body was left by an exception or an interrupt before
\* verification produced a result has exactly one ledger entry, with success = false.
C7_UnverifiedIsFailed ==
  (IterOver /\ RaisedAt(BeforeVerification, {"Exception", "KeyboardInterrupt"})
     /\ Cardinality(EnvRaises) = 1) =>
     /\ Cardinality(EntriesFor(i)) = 1
     /\ \A j \in EntriesFor(i) : LedgerOf(ledger, PhaseName)[j][2] = FALSE

(* ------------------- claims: dispatch, error propagation --------------- *)
\* C11: when the selected runner's run has raised, dispatch has ended with that
\* same error, not with a selection error or a wrapper, and the selected runner
\* is the only one that was instantiated.
C11_RunErrorPropagates ==
  (pc = "exit" /\ instantiated # << >> /\ exc # "none") =>
     /\ dispatched = exc
     /\ dispatched \notin {"RunnerNotFoundError", "RunnerAmbiguousError", "RunnerError"}
     /\ Len(instantiated) = 1
C11_Witness ==
  /\ pc = "exit"
  /\ Len(registry) >= 2
  /\ instantiated # << >>
  /\ exc = "ExperimentError"
  /\ dispatched = "ExperimentError"

(* ----------------------- claims: process_handler ----------------------- *)
GroupAlive == proc.parent = "running" \/ proc.child = "running"
RunAndWaitDone == proc.op = "run_and_wait" /\ proc.step = "done"

\* C12: when run_and_wait has raised TimeoutExpired (on a group the caller may
\* signal), the error carries the requested timeout and the output captured,
\* and neither the direct child nor its descendant is alive, whatever each of
\* them does on SIGTERM.
C12_TimeoutLeavesNoProcess ==
  (RunAndWaitDone /\ proc.result.kind = "TimeoutExpired" /\ proc.signalable) =>
     /\ proc.result.timeout = proc.timeout
     /\ proc.result.stdout = proc.stdout
     /\ ~GroupAlive

\* C13: when communicate completed before the timeout, run_and_wait ends with the
\* exit code and both streams the command produced; it raises CalledProcessError
\* exactly when check is true and the exit code is not zero, and returns otherwise.
C13_CompletionResult ==
  (RunAndWaitDone /\ proc.result.kind # "TimeoutExpired") =>
     /\ proc.result.returncode = proc.exit_status
     /\ proc.result.stdout = proc.stdout_data
     /\ proc.result.stderr = proc.stderr_data
     /\ proc.result.kind = IF proc.check /\ proc.exit_status # 0
                           THEN "CalledProcessError" ELSE "CompletedProcess"
C13_Witness ==
  /\ RunAndWaitDone
  /\ proc.result.kind = "CompletedProcess"
  /\ ~proc.check
  /\ proc.result.returncode = 1
  /\ proc.result.stdout = "out"
  /\ proc.child = "dead"

\* C14: no call of terminate() or kill_tree() on a handle raises, in any state
\* of the process: running, ended, reaped, or not signalable.
C14_SignalsNeverRaise ==
  proc.op = "run_local" => proc.call_raised = "none"
C14_Witness ==
  /\ proc.op = "run_local"
  /\ proc.calls = <<"kill_tree", "is_running", "kill_tree">>
  /\ proc.parent = "reaped"
  /\ proc.call_raised = "none"

\* C15: once kill_tree() has been called on a handle of run_local (whose group
\* the caller may signal), is_running() reports false and no member of the
\* group is alive; signals are delivered at once in this model, so
\* "eventually" is "from the return of kill_tree on".
C15_KillTreeKillsGroup ==
  (proc.op = "run_local" /\ proc.signalable
     /\ \E k \in DOMAIN proc.calls : proc.calls[k] = "kill_tree") =>
     ~GroupAlive

(* ------------------------- claims: sleep_times ------------------------- *)
\* a get has just been made: the file is as it was during the call
PostGet == st.path \in {"none", "file"} /\ st.last.called
\* the value a document gives a key, else the default
FileValue(doc, key, default) ==
  IF key \in DOMAIN doc.vals THEN doc.vals[key].v ELSE default

\* C16: a get that returns gives the value of the key in the mapping loaded at
\* that moment (the file's, when it was just read) and the default otherwise:
\* always the default with no path and with the file missing, also for a key
\* loaded earlier.
C16_GetValueOrDefault ==
  (PostGet /\ st.last.raised = "none") =>
     LET l == st.last
     IN /\ l.result = IF l.key \in DOMAIN st.cache.parsed
                      THEN st.cache.parsed[l.key] ELSE l.default
        /\ (st.path = "none" \/ ~st.file.present) => l.result = l.default
        /\ l.read => l.result = FileValue(st.file.content, l.key, l.default)
C16_Witness ==
  /\ PostGet
  /\ st.path = "file"
  /\ ~st.file.present
  /\ st.last.pre_mtime # -1
  /\ st.last.result = st.last.default

\* C17: with the file present, a get made after its modification time moved off
\* the one of the last load reads it and answers from the new content; a get
\* made while the modification time is the one of the last load does not read
\* the file and answers from the cache, even if the content was rewritten.
C17_ReloadByMtime ==
  (PostGet /\ st.path = "file" /\ st.file.present) =>
     LET l == st.last
         same == l.pre_loaded /\ st.file.mtime = l.pre_mtime
     IN /\ ~same => /\ l.read
                    /\ l.raised = "none" =>
                          l.result = FileValue(st.file.content, l.key, l.default)
        /\ same => /\ ~l.read
                   /\ l.raised = "none"
                   /\ l.result = IF l.key \in DOMAIN st.cache.parsed
                                 THEN st.cache.parsed[l.key] ELSE l.default
C17_Witness ==
  /\ PostGet
  /\ st.file.present
  /\ ~st.last.read
  /\ st.file.content.top = "mapping"
  /\ st.last.key \in DOMAIN st.file.content.vals
  /\ st.last.key \in DOMAIN st.cache.parsed
  /\ st.last.result # st.file.content.vals[st.last.key].v

\* C18: a get logs the file-not-found warning exactly when a path is configured,
\* the file is absent, and it was not absent at the previous get (this is the
\* first get, or the file was present at the previous one).
C18_WarnOncePerAbsence ==
  PostGet =>
     (st.last.warned <=>
        (st.path = "file" /\ ~st.file.present /\ st.last.prev \in {"first", "present"}))

\* a document that is not a flat mapping of keys to numbers
Malformed(doc) ==
  \/ doc.top \in {"list", "empty_list"}
  \/ \E k \in DOMAIN doc.vals : doc.vals[k].kind = "str"

\* C19: every get made while the file is present and malformed fails with the
\* configuration error; none returns the default or a cached value.
C19_MalformedAlwaysFails ==
  (PostGet /\ st.path = "file" /\ st.file.present /\ Malformed(st.file.content)) =>
     st.last.raised = "ValueError"


\* ---------------------------------------------------------------------------
\* Tap verification (trigger_taps_on_phone)
\* ---------------------------------------------------------------------------

\* the try body of iteration i ran to its end: no statement of it raised
BodyCompleted == \A k \in DOMAIN raised : raised[k][1] \notin BodySteps

\* C20: when the body of an iteration completes, the result recorded in the
\* ledger for it is true exactly when every screenshot comparison
\* trigger_taps_on_phone made in that iteration scored at least the similarity
\* threshold; one comparison below the threshold, or one that raised, makes
\* it false.
C20_VerifiedIffAllMet ==
  (RunEntered /\ pc = "iter_end" /\ BodyCompleted) =>
     LET l == LedgerOf(ledger, PhaseName)
     IN /\ world.verified # "none"
        /\ l # << >>
        /\ l[Len(l)] = <<i, world.verified = "all_met">>

\* an iteration whose body completed and whose recorded result is false
\* because a comparison failed
C20_Witness ==
  /\ RunEntered
  /\ pc = "iter_end"
  /\ BodyCompleted
  /\ world.verified = "some_failed"
  /\ LedgerOf(ledger, PhaseName) # << >>
  /\ LedgerOf(ledger, PhaseName)[Len(LedgerOf(ledger, PhaseName))] = <<i, FALSE>>

\* ---------------------------------------------------------------------------
\* Tap loop (trigger_taps_on_phone, line by line)
\* ---------------------------------------------------------------------------

\* the lines the loop has finished with
LinesDone ==
  IF taps.at \in {"return", "returned"} THEN DOMAIN taps.file ELSE 1..(taps.k - 1)
\* what was done on the device and the screenshot for line j, in order
EventsOf(j) == SelectSeq(taps.log, LAMBDA e : e[2] = j)
\* a line that is not a tap instruction "tap X Y" with integer coordinates,
\* nor an empty or comment line
MalformedLine(line) == line \in {"bad_shape", "bad_coords"}

\* a failed comparison does not stop the loop: unless a tap, a screenshot or an
\* interrupt raises, every tap instruction is tapped, screenshotted and compared,
\* in script order
C21_FailedComparisonContinues ==
  taps.at \notin {"unset", "raised"} =>
    /\ \A j \in LinesDone :
         taps.file[j] = "tap" =>
           EventsOf(j) = << <<"tap", j>>, <<"screenshot", j>>, <<"compare", j>> >>
    /\ \A a, b \in DOMAIN taps.log : a < b => taps.log[a][2] <= taps.log[b][2]
    /\ (taps.failed # {} /\ taps.at # "returned") =>
          taps.at \in {"perform_tap", "take_screenshot", "compare_images", "return"}

\* a malformed line is skipped with a warning: nothing is done for it, it
\* cannot fail the result, and the loop is never left while on it
C21_MalformedSkipped ==
  taps.at # "unset" =>
    /\ \A j \in LinesDone :
         MalformedLine(taps.file[j]) =>
           /\ \E w \in DOMAIN taps.warned : taps.warned[w] = j
           /\ EventsOf(j) = << >>
           /\ j \notin taps.failed
    /\ (taps.at = "raised" /\ taps.exc # "FileNotFoundError") =>
          ~MalformedLine(taps.file[taps.k])

\* C21: after a comparison of an iteration has failed, every remaining tap
\* instruction of the script is still executed, screenshotted and compared,
\* in script order; a malformed tap line is skipped with a warning and neither
\* stops the loop nor fails the iteration.
C21_TapLoopGoesOn == C21_FailedComparisonContinues /\ C21_MalformedSkipped


\* ---------------------------------------------------------------------------
\* Summary (ExperimentContext.summarise_iterations)
\* ---------------------------------------------------------------------------

\* summarise_iterations() has returned a summary
PostSummary == ec.at = "summarised" /\ ec.raised = "none"

RECURSIVE SplitLines(_)
\* str.splitlines(): the lines of a text, without their line breaks
SplitLines(text) ==
  IF text = << >> THEN << >>
  ELSE IF \E k \in DOMAIN text : text[k] = "\n"
  THEN LET k == CHOOSE n \in DOMAIN text :
                  text[n] = "\n" /\ \A m \in 1..(n - 1) : text[m] # "\n"
       IN <<SubSeq(text, 1, k - 1)>> \o SplitLines(SubSeq(text, k + 1, Len(text)))
  ELSE <<text>>

\* re.sub(r"\s+", "", text), piece by piece
Canon(text) == SelectSeq(text, LAMBDA t : t \notin {" ", "\n"})

RECURSIVE Flat(_)
\* the pieces of a text as one string
Flat(text) == IF text = << >> THEN "" ELSE Head(text) \o Flat(Tail(text))

\* the ledger of the scenario: {no_frida: [(1,true),(2,false)], frida: [(1,true)]}
ScenarioLedger ==
  << [phase |-> "no_frida", entries |-> << <<1, TRUE>>, <<2, FALSE>> >>],
     [phase |-> "frida", entries |-> << <<1, TRUE>> >>] >>

\* what the line of a phase must say, whitespace apart: the phase, the number
\* of entries recorded true over the number of entries, and the indices
\* recorded false, in recorded order, when there are any
LineSays(line, phase, entries) ==
  LET ok == {j \in DOMAIN entries : entries[j][2]}
      bad == SelectSeq(entries, LAMBDA e : e[2] = FALSE)
      head == <<phase, ":", ToString(Cardinality(ok)), "/", ToString(Len(entries))>>
      c == Canon(line)
  IN IF bad = << >>
     THEN c = head
     ELSE /\ Len(c) = Len(head) + 2 * Len(bad) + 2
          /\ SubSeq(c, 1, Len(head) + 2) = head \o <<"failed:", "(">>
          /\ c[Len(c)] = ")"
          /\ \A k \in DOMAIN bad :
               /\ c[Len(head) + 2 * k + 1] = ToString(bad[k][1])
               /\ k < Len(bad) => c[Len(head) + 2 * k + 2] = ","

C26_HeaderThenPhases ==
  PostSummary =>
    LET lines == SplitLines(ec.returned[1])
    IN /\ lines[1] = <<"Iteration results">>
       /\ Len(lines) = 1 + Len(ec.before)

RunFailed ==
  /\ RunEntered
  /\ pc = "exit"
  /\ dispatched # "returned"
  /\ ~RaisedAt(BodySteps \cup CleanupSteps \cup Range(runLog) \cup FinallyPcs,
               {"KeyboardInterrupt"})

\* a run that failed ends only after the overall capture, when it was started,
\* has been killed and the first statement of the run-level cleanup was called
C24_CleanupBeforeAbort ==
  RunFailed =>
    /\ loc.overall_process \in {"None", "killed"}
    /\ RunCleanup(Runner)[1] \in Range(runLog)

\* a failure outside iteration-scope recovery makes run() fail, and a run that
\* fails raises ExperimentError
C24_FailsAsExperimentError ==
  /\ (RunEntered /\ pc = "exit" /\ RaisedAt(Range(runLog), {"Exception"})) =>
        dispatched # "returned"
  /\ RunFailed => dispatched = "ExperimentError"

\* C24: a failure during run-level setup or inside a phase that escapes
\* iteration-scope recovery, and a failure during run-level cleanup, leaves
\* run() as ExperimentError, and only after the overall capture has been
\* stopped and the run-level cleanup has been attempted.
C24_RunLevelErrorAfterCleanup == C24_FailsAsExperimentError /\ C24_CleanupBeforeAbort


\* ---------------------------------------------------------------------------
\* Network-redirection rules
\* ---------------------------------------------------------------------------

\* C25: in an instrumented iteration, when applying the network-redirection
\* rules fails, the iteration is aborted and recorded as failed and the loop
\* goes on: the failure does not leave _iteration_phase.
C25_RuleFailureAbortsIterationOnly ==
  (IterOver /\ use_frida /\ RaisedAt({"apply_rules_up"}, {"Exception"})) =>
    /\ pc = "iter_end"
    /\ exc = "none"
    /\ \E j \in EntriesFor(i) : LedgerOf(ledger, PhaseName)[j] = <<i, FALSE>>


\* ---------------------------------------------------------------------------
\* Order of the iteration's cleanup
\* ---------------------------------------------------------------------------

\* the statements that stop the relay, device and server captures
CaptureStops == {"stop_remote_tcpdump", "stop_phone_capture", "kill_server_process"}

\* C27: within an iteration's cleanup the interception proxy and the
\* instrumentation process, when started, are stopped before the server,
\* device and relay captures are stopped: no capture stop is called while one
\* of them is still running.
C27_ProxyStoppedBeforeCaptures ==
  (RunEntered /\ CaptureStops \cap Range(iterLog) # {}) =>
    /\ loc.mitm_process # "running"
    /\ loc.frida_process # "running"

\* the cleanup statements called so far in the iteration in progress, in order
CleanupLog == SelectSeq(iterLog, LAMBDA step : step \in CleanupSteps)

\* the place of a cleanup statement in the order: stop relay capture, stop
\* device capture, stop server capture, stop proxy and instrumentation,
\* retrieve the device capture, delete the phone-side copy, retrieve the relay
\* capture, reset the terminal, revert the rules, stop app, sleep, ledger append
CleanupRank(step) ==
  CASE step = "stop_remote_tcpdump" -> 1
    [] step = "stop_phone_capture" -> 2
    [] step = "kill_server_process" -> 3
    [] step \in {"kill_mitm_process", "kill_frida_process"} -> 4
    [] step \in {"pull_phone_pcap", "download_phone_pcap"} -> 5
    [] step = "delete_phone_pcap" -> 6
    [] step = "download_remote_pcap" -> 7
    [] step = "reset_terminal" -> 8
    [] step = "apply_rules_down" -> 9
    [] step = "stop_app" -> 10
    [] step = "sleep_stop_app" -> 11
    [] step = "record_iteration_result" -> 12

\* the order with every retrieval of a capture file before the deletion
StatedRank(step) ==
  IF step = "download_remote_pcap" THEN 5
  ELSE IF step = "delete_phone_pcap" THEN 6
  ELSE CleanupRank(step)

\* the ledger append, once made, is the last statement of the iteration
AppendIsLast ==
  "record_iteration_result" \in Range(iterLog) =>
     /\ iterLog[Len(iterLog)] = "record_iteration_result"
     /\ pc \in {"iter_end", "kill_overall"} \cup FinallyPcs \cup {"exit"}

C29_StopWithStartedPid ==
  RunEntered =>
    /\ world.setup_stop # 0 => world.setup_stop = loc.setup_phone_pid
    /\ world.phone_stop # 0 => world.phone_stop = loc.phone_tcpdump_pid
    /\ world.relay_stop # 0 => world.relay_stop = loc.remote_pid


\* C30: rules applied in an instrumented iteration are reverted in that
\* iteration's cleanup, whether the body succeeded or threw and whichever
\* other cleanup step fails: unless the revert itself failed or the operator
\* interrupted, no iteration and no run ends with the rules still applied.
C30_RulesReverted ==
  ((IterOver \/ (RunEntered /\ pc = "exit"))
     /\ ~RaisedAt({"apply_rules_down"}, {"Exception", "KeyboardInterrupt"})
     /\ ~RaisedAt(BodySteps \cup CleanupSteps, {"KeyboardInterrupt"})) =>
    world.rules = "down"

\* ---------------------------------------------------------------------------
\* Stages of a run
\* ---------------------------------------------------------------------------

\* the stage a run-level statement belongs to (0: none of the stages named)
StageRank(step) ==
  CASE step = "start_overall" -> 1
    [] step = "prompt_ready" -> 2
    [] step = "phase_no_frida" -> 3
    [] step = "phase_frida" -> 4
    [] step \in FinallyPcs -> 5
    [] OTHER -> 0
\* the run-level statements called so far that belong to a stage, in order
StageLog == SelectSeq(runLog, LAMBDA step : StageRank(step) > 0)
\* the indices recorded for the baseline phase, in order
BaselineIndices ==
  LET l == LedgerOf(ledger, "no_frida") IN [k \in DOMAIN l |-> l[k][1]]
\* a statement of an iteration is about to run, or an iteration has been run
InIteration == pc \in BodySteps \cup CleanupSteps \cup {"iter_end"}

\* C31: a run passes through its stages only in the order overall capture
\* start, operator confirmation gate, baseline iterations, instrumented
\* iterations, run-level cleanup; no iteration starts before the operator has
\* confirmed, and no instrumented iteration starts before the baseline phase
\* has run all its iterations.
C31_StagesInOrder ==
  RunEntered =>
    /\ LET log == StageLog
       IN \A a \in 1..(Len(log) - 1) :
            \/ StageRank(log[a]) < StageRank(log[a + 1])
            \/ StageRank(log[a]) = 5 /\ StageRank(log[a + 1]) = 5
    /\ "phase_no_frida" \in Range(runLog) =>
          /\ world.gate = "y"
          /\ {"start_overall", "prompt_ready"} \subseteq Range(runLog)
    /\ "phase_frida" \in Range(runLog) =>
          /\ "phase_no_frida" \in Range(runLog)
          /\ BaselineIndices = [k \in 1..cfg.no_frida_iterations |-> k]
    /\ InIteration =>
          /\ runLog[Len(runLog)] = (IF use_frida THEN "phase_frida" ELSE "phase_no_frida")
          /\ use_frida \/ LedgerOf(ledger, "frida") = << >>
    /\ (ledger # << >> \/ i > 0) => "phase_no_frida" \in Range(runLog)

\* a run that went through every stage, with two iterations in each phase
C31_Witness ==
  /\ RunEntered
  /\ pc = "exit"
  /\ dispatched = "returned"
  /\ world.gate = "y"
  /\ Len(LedgerOf(ledger, "no_frida")) = 2
  /\ Len(LedgerOf(ledger, "frida")) = 2
  /\ Len(StageLog) >= 5

\* ---------------------------------------------------------------------------
\* The whole-run capture
\* ---------------------------------------------------------------------------

\* server.start_tcpdump of run() returned a handle
OverallStarted ==
  /\ "start_overall" \in Range(runLog)
  /\ ~RaisedAt({"start_overall"}, {"Exception"})

\* C32: the whole-run capture is started before the first iteration and no
\* iteration stops it; when it was started, kill_tree is called on it in the
\* run-level cleanup on every way out of run() - return, error, interrupt -
\* so that it is not held running once run() has been left.
C32_OverallCaptureHeldThenKilled ==
  RunEntered =>
    /\ InIteration => loc.overall_process = "running"
    /\ (OverallStarted /\ pc \notin {"kill_overall", "exit"} \cup FinallyPcs) =>
          loc.overall_process = "running"
    /\ pc \in (FinallyPcs \ {"kill_overall"}) \cup {"exit"} =>
          /\ loc.overall_process # "running"
          /\ OverallStarted =>
                (loc.overall_process = "killed" /\ "kill_overall" \in Range(runLog))
          /\ "kill_overall" \in Range(runLog) => OverallStarted

\* run() was left by an operator interrupt during the setup recording, after
\* the whole-run capture had been started, and the capture was killed
C32_Witness ==
  /\ RunEntered
  /\ pc = "exit"
  /\ dispatched = "KeyboardInterrupt"
  /\ RaisedAt({"setup_prompt"}, {"KeyboardInterrupt"})
  /\ OverallStarted
  /\ loc.overall_process = "killed"

\* ---------------------------------------------------------------------------
\* Sequence of the iterations
\* ---------------------------------------------------------------------------

\* the indices recorded for a phase, in the order of the ledger
IndicesOf(phase) ==
  LET l == LedgerOf(ledger, phase) IN [k \in DOMAIN l |-> l[k][1]]
\* the ledger append of the iteration in progress has been made
Recorded == "record_iteration_result" \in Range(iterLog)

\* C33: the iterations of a phase run one after another with indices 1, 2,
\* ..., N: while iteration i runs, exactly the iterations 1..i-1 have been
\* recorded (iteration i was not started before, and every earlier cleanup
\* reached its ledger append), and the ledger never holds two entries for one
\* phase and index.
C33_IterationsSequential ==
  RunEntered =>
    /\ \A phase \in Phases :
          /\ IndicesOf(phase) = [k \in 1..Len(IndicesOf(phase)) |-> k]
          /\ Len(IndicesOf(phase)) <=
                (IF phase = "frida" THEN cfg.frida_iterations ELSE cfg.no_frida_iterations)
    /\ InIteration =>
          /\ i \in 1..(IF use_frida THEN cfg.frida_iterations ELSE cfg.no_frida_iterations)
          /\ Len(IndicesOf(PhaseName)) = (IF Recorded THEN i ELSE i - 1)

\* the second instrumented iteration is running after the first one failed
C33_Witness ==
  /\ RunEntered
  /\ use_frida
  /\ i = 2
  /\ pc = "trigger_taps_on_phone"
  /\ LedgerOf(ledger, "frida") = << <<1, FALSE>> >>

\* ---------------------------------------------------------------------------
\* run_and_wait: escalation on timeout
\* ---------------------------------------------------------------------------

\* the signals a run_and_wait has sent so far, without their targets
SignalsSent == [k \in DOMAIN proc.sent |-> proc.sent[k][1]]
\* the timeout handler of run_and_wait has been entered
TimedOut ==
  /\ proc.op = "run_and_wait"
  /\ proc.step \in {"killpg_term", "wait", "communicate_final"}
       \/ (proc.step = "done" /\ proc.result.kind = "TimeoutExpired")

\* the order of the signals: SIGTERM first, SIGKILL only after it, each aimed
\* at the group unless the group cannot be signalled
EscalationOrder ==
  proc.op = "run_and_wait" =>
    /\ SignalsSent \in {<< >>, <<15>>, <<15, 9>>}
    /\ (SignalsSent # << >>) = (TimedOut /\ proc.step # "killpg_term")
    /\ \A k \in DOMAIN proc.sent :
         proc.sent[k][2] = (IF proc.signalable THEN "group" ELSE "child")

\* the end of the grace period: SIGKILL is sent exactly when the direct child
\* has not ended
GraceThenKill ==
  (proc.op = "run_and_wait" /\ proc.step = "wait" /\ proc'.step = "communicate_final") =>
     ((SignalsSent' = <<15, 9>>) = (proc.parent = "running"))

\* C34: on timeout run_and_wait sends SIGTERM to the process group, waits up
\* to the grace period for the direct child, then sends SIGKILL to the group:
\* SIGKILL is never sent before SIGTERM, it is sent whenever the direct child
\* has not ended by the end of the grace period, and each signal goes to the
\* direct child alone when the group cannot be signalled.
C34_TimeoutEscalation == []EscalationOrder /\ [][GraceThenKill]_vars

\* a direct child that ignores SIGTERM: both signals were sent to the group
C34_Witness ==
  /\ proc.op = "run_and_wait"
  /\ proc.step = "done"
  /\ proc.result.kind = "TimeoutExpired"
  /\ proc.on_term.parent = "ignore"
  /\ proc.sent = << <<15, "group">>, <<9, "group">> >>
  /\ proc.exit_status = 0 - 9

\* ---------------------------------------------------------------------------
\* The registry
\* ---------------------------------------------------------------------------

\* no class has two entries
NoClassTwice ==
  \A a, b \in DOMAIN registry : registry[a].cls = registry[b].cls => a = b

\* a step keeps every entry in its place, appends at most one entry, of a class
\* not registered before, and appends nothing when the call named a registered
\* class or when the step is one of dispatch
RegistryStep ==
  /\ Len(registry') \in {Len(registry), Len(registry) + 1}
  /\ \A k \in DOMAIN registry : registry'[k] = registry[k]
  /\ Len(registry') = Len(registry) + 1 =>
        /\ pc = "cli" /\ pc' = "cli"
        /\ duplicate' = "no"
        /\ \A k \in DOMAIN registry : registry[k].cls # registry'[Len(registry')].cls
  /\ duplicate' # "no" => registry' = registry
  /\ pc' # pc => registry' = registry

\* C35: the registry is append-only and holds each class once: a call of
\* register that names a registered class leaves it unchanged, also with
\* another name or priority, and neither register nor dispatch removes,
\* reorders or modifies an entry.
C35_RegistryAppendOnly == []NoClassTwice /\ [][RegistryStep]_vars

\* a class registered under its own name with priority 0 was registered again
\* under another name or priority, the registry holds it once, as before, and
\* dispatch has run since
C35_Witness ==
  /\ duplicate = "other"
  /\ pc = "exit"
  /\ Len(registry) >= 2
  /\ \E k \in DOMAIN registry :
       /\ registry[k] = [cls |-> "GenericRunner", name |-> "GenericRunner", priority |-> 0]
       /\ \A j \in DOMAIN registry : registry[j].cls = "GenericRunner" => j = k

\* ---------------------------------------------------------------------------
\* Process handles of an iteration
\* ---------------------------------------------------------------------------

\* the handles started in the iteration in progress on which kill_tree has not
\* been called
HandlesRunning ==
  {h \in {"server_process", "mitm_process", "frida_process"} : loc[h] = "running"}

\* C36: when an iteration has ended - its ledger entry was appended, or an
\* exception left _iteration_phase - kill_tree has been called on every handle
\* started in it (server capture, interception proxy, instrumentation
\* process): none is held running when the next iteration or the run-level
\* cleanup begins.
C36_NoHandleLeftRunning ==
  (RunEntered /\ pc \in {"iter_end"} \cup FinallyPcs \cup {"exit"}) => HandlesRunning = {}

\* ---------------------------------------------------------------------------
\* The setup recording
\* ---------------------------------------------------------------------------

SetupPcs == {"setup_start_server", "setup_start_phone", "setup_prompt", "setup_kill_server",
             "setup_stop_phone", "setup_pull", "setup_delete", "setup_download"}
\* _record_setup_phase was called and has been left, by return or by exception
SetupLeft ==
  /\ RunEntered
  /\ "setup_start_server" \in Range(runLog)
  /\ pc \notin SetupPcs
\* the phone-side capture of the setup recording was started
SetupPhoneStarted ==
  /\ "setup_start_phone" \in Range(runLog)
  /\ ~RaisedAt({"setup_start_phone"}, {"Exception", "KeyboardInterrupt"})
\* ... and its stop call was made and returned
SetupPhoneStopped ==
  /\ "setup_stop_phone" \in Range(runLog)
  /\ ~RaisedAt({"setup_stop_phone"}, {"Exception", "KeyboardInterrupt"})

\* C37: when _record_setup_phase has been left, the server capture and the
\* phone-side capture it started have been stopped - also when the start of
\* the phone-side capture, the operator prompt or a retrieval step raised or
\* was interrupted.
C37_SetupCapturesStopped ==
  SetupLeft =>
    /\ loc.setup_server_process # "running"
    /\ SetupPhoneStarted =>
          (SetupPhoneStopped \/ RaisedAt({"setup_stop_phone"}, {"Exception", "KeyboardInterrupt"}))

\* ---------------------------------------------------------------------------
\* Capture files on the phone and the relay
\* ---------------------------------------------------------------------------

\* the capture files of the setup recording and of the iteration in progress
CaptureFiles == {world.setup_file, world.phone_file, world.relay_file}
\* statement `first` was called in this iteration and returned before `second`
\* was called
ReturnedBefore(first, second) ==
  \E a, b \in DOMAIN iterLog :
     /\ a < b
     /\ iterLog[a] = first
     /\ iterLog[b] = second
     /\ ~RaisedAt({first}, {"Exception", "KeyboardInterrupt", "TypeError"})

\* C38: a capture file on the phone or relay is deleted only after it has
\* been retrieved: no file is deleted without a copy in the output tree, the
\* runners call the delete only after the pull returned, and a download whose
\* transfer failed removes nothing.
C38_DeleteOnlyAfterRetrieval ==
  RunEntered =>
    /\ "lost" \notin CaptureFiles
    /\ "delete_phone_pcap" \in Range(iterLog) =>
          ReturnedBefore("pull_phone_pcap", "delete_phone_pcap")
    /\ "setup_delete" \in Range(runLog) =>
          ("setup_pull" \in Range(runLog) /\ ~RaisedAt({"setup_pull"}, {"Exception", "KeyboardInterrupt"}))

\* an iteration of the cross-network ios runner in which the transfer of the
\* phone capture failed inside the download helper and the relay capture was
\* downloaded and removed: the phone capture is still on the phone
C38_Witness ==
  /\ RunEntered
  /\ Runner = "iOSWanRunner"
  /\ pc = "iter_end"
  /\ raised = << >>
  /\ {"download_phone_pcap", "download_remote_pcap"} \subseteq Range(iterLog)
  /\ world.phone_file = "unretrieved"
  /\ world.relay_file = "removed"

\* ---------------------------------------------------------------------------
\* Baseline iterations
\* ---------------------------------------------------------------------------

\* the statements that invoke a redirection-rule script or start or kill the
\* interception proxy or the instrumentation process
InstrumentedOnly ==
  {"apply_rules_up", "apply_rules_down", "start_mitmdump", "start_frida", "start_objection",
   "kill_mitm_process", "kill_frida_process"}

\* C39: in a baseline iteration no redirection-rule script is invoked and no
\* interception proxy or instrumentation process is started or killed, on any
\* path: the rules stay as they were and both handles stay None.
C39_BaselineUntouched ==
  (RunEntered /\ ~use_frida) =>
    /\ Range(iterLog) \cap InstrumentedOnly = {}
    /\ pc \notin InstrumentedOnly \ {"kill_mitm_process", "kill_frida_process"}
    /\ world.rules = "down"
    /\ loc.mitm_process = "None"
    /\ loc.frida_process = "None"

\* a baseline iteration whose phone capture failed to start went through its
\* whole cleanup
C39_Witness ==
  /\ RunEntered
  /\ ~use_frida
  /\ pc = "iter_end"
  /\ raised = << <<"start_phone_capture", "Exception">> >>
  /\ iterLog[Len(iterLog)] = "record_iteration_result"
  /\ LedgerOf(ledger, "no_frida") = << <<1, FALSE>> >>

\* ---------------------------------------------------------------------------
\* The built-in runners
\* ---------------------------------------------------------------------------

\* the runner class written for a platform and a network profile
RunnerFor(platform, profile) ==
  CASE platform = "android" /\ profile = "lan" -> "AndroidLanRunner"
    [] platform = "android" /\ profile = "wan" -> "AndroidWanRunner"
    [] platform = "ios" /\ profile = "lan" -> "iOSLanRunner"
    [] platform = "ios" /\ profile = "wan" -> "iOSWanRunner"

\* C40: with the four built-in runners registered, exactly one of them accepts
\* each configuration of {android, ios} x {lan, wan}: dispatch does not fail
\* with the no-match or the ambiguous-match error, and the one runner it runs
\* is that of the configured platform and profile.
C40_OneBuiltinPerConfiguration ==
  /\ {registry[k].cls : k \in DOMAIN registry} = BuiltinSet
  /\ Cardinality(MatchIdx) = 1
  /\ \A k \in MatchIdx : registry[k].cls = RunnerFor(cfg.platform, cfg.network_profile)
  /\ dispatched \notin {"RunnerNotFoundError", "RunnerAmbiguousError"}
  /\ DispatchDone => instantiated = <<RunnerFor(cfg.platform, cfg.network_profile)>>

\* the cross-network ios configuration was dispatched to iOSWanRunner, whose
\* run has returned
C40_Witness ==
  /\ cfg.platform = "ios"
  /\ cfg.network_profile = "wan"
  /\ pc = "exit"
  /\ dispatched = "returned"
  /\ instantiated = <<"iOSWanRunner">>

====
